---- MODULE Spec2Model ----
(***************************************************************************)
(* Model of app/etl.py: the one-shot PostgreSQL -> Neo4j load pipeline.    *)
(*                                                                         *)
(* Text values that the code formats or inspects (timestamps, dates,       *)
(* event types) are sequences of one-character strings, so that            *)
(* str.upper(), str.replace() and isoformat() are computed rather than     *)
(* assumed.  A visible ASCII character is written as itself, the blank     *)
(* characters as " ", "\t", "\n", "\f", "\r", and every other character     *)
(* by its code point: "U+0131" is the dotless i.  Values the code only     *)
(* copies (name, price, quantity) are atomic.                              *)
(***************************************************************************)
EXTENDS Bags, FiniteSets, Integers, Sequences, TLC

(***************************************************************************)
(* Bounds of the model.                                                    *)
(***************************************************************************)
\* chunk()'s default size (500 in the source), scaled to the model's tables
ChunkSize == 2
\* max_retries of wait_for_postgres / wait_for_neo4j (30 in the source), scaled
MaxRetries == 2
\* number of successive etl() runs against the same graph
MaxRuns == 2
\* largest input length and chunk size tried on chunk() alone
MaxLen == 5
MaxSize == 4
MaxFileLen == 5
\* how far below zero and up to what value max_retries is tried, and the
\* largest delay tried, on the wait_for_* functions alone
BelowZeroArg == 1
MaxRetriesArg == 3
MaxDelayArg == 2

(***************************************************************************)
(* Text helpers.                                                           *)
(***************************************************************************)
Digits == <<"0", "1", "2", "3", "4", "5", "6", "7", "8", "9">>

Lowercase == <<"a", "b", "c", "d", "e", "f", "g", "h", "i", "j", "k", "l", "m",
               "n", "o", "p", "q", "r", "s", "t", "u", "v", "w", "x", "y", "z">>

Uppercase == <<"A", "B", "C", "D", "E", "F", "G", "H", "I", "J", "K", "L", "M",
               "N", "O", "P", "Q", "R", "S", "T", "U", "V", "W", "X", "Y", "Z">>

TwoDigits(n) == <<Digits[(n \div 10) + 1], Digits[(n % 10) + 1]>>

FourDigits(n) == TwoDigits(n \div 100) \o TwoDigits(n % 100)

\* The characters outside ASCII that str.upper() changes, each with the
\* text it becomes (Unicode 14.0.0, the full case mapping: one character may
\* become two or three).
UpperPairs == {
    <<"U+00B5", <<"U+039C">>>>, <<"U+00DF", <<"S", "S">>>>, <<"U+00E0", <<"U+00C0">>>>,
    <<"U+00E1", <<"U+00C1">>>>, <<"U+00E2", <<"U+00C2">>>>, <<"U+00E3", <<"U+00C3">>>>,
    <<"U+00E4", <<"U+00C4">>>>, <<"U+00E5", <<"U+00C5">>>>, <<"U+00E6", <<"U+00C6">>>>,
    <<"U+00E7", <<"U+00C7">>>>, <<"U+00E8", <<"U+00C8">>>>, <<"U+00E9", <<"U+00C9">>>>,
    <<"U+00EA", <<"U+00CA">>>>, <<"U+00EB", <<"U+00CB">>>>, <<"U+00EC", <<"U+00CC">>>>,
    <<"U+00ED", <<"U+00CD">>>>, <<"U+00EE", <<"U+00CE">>>>, <<"U+00EF", <<"U+00CF">>>>,
    <<"U+00F0", <<"U+00D0">>>>, <<"U+00F1", <<"U+00D1">>>>, <<"U+00F2", <<"U+00D2">>>>,
    <<"U+00F3", <<"U+00D3">>>>, <<"U+00F4", <<"U+00D4">>>>, <<"U+00F5", <<"U+00D5">>>>,
    <<"U+00F6", <<"U+00D6">>>>, <<"U+00F8", <<"U+00D8">>>>, <<"U+00F9", <<"U+00D9">>>>,
    <<"U+00FA", <<"U+00DA">>>>, <<"U+00FB", <<"U+00DB">>>>, <<"U+00FC", <<"U+00DC">>>>,
    <<"U+00FD", <<"U+00DD">>>>, <<"U+00FE", <<"U+00DE">>>>, <<"U+00FF", <<"U+0178">>>>,
    <<"U+0101", <<"U+0100">>>>, <<"U+0103", <<"U+0102">>>>, <<"U+0105", <<"U+0104">>>>,
    <<"U+0107", <<"U+0106">>>>, <<"U+0109", <<"U+0108">>>>, <<"U+010B", <<"U+010A">>>>,
    <<"U+010D", <<"U+010C">>>>, <<"U+010F", <<"U+010E">>>>, <<"U+0111", <<"U+0110">>>>,
    <<"U+0113", <<"U+0112">>>>, <<"U+0115", <<"U+0114">>>>, <<"U+0117", <<"U+0116">>>>,
    <<"U+0119", <<"U+0118">>>>, <<"U+011B", <<"U+011A">>>>, <<"U+011D", <<"U+011C">>>>,
    <<"U+011F", <<"U+011E">>>>, <<"U+0121", <<"U+0120">>>>, <<"U+0123", <<"U+0122">>>>,
    <<"U+0125", <<"U+0124">>>>, <<"U+0127", <<"U+0126">>>>, <<"U+0129", <<"U+0128">>>>,
    <<"U+012B", <<"U+012A">>>>, <<"U+012D", <<"U+012C">>>>, <<"U+012F", <<"U+012E">>>>,
    <<"U+0131", <<"I">>>>, <<"U+0133", <<"U+0132">>>>, <<"U+0135", <<"U+0134">>>>,
    <<"U+0137", <<"U+0136">>>>, <<"U+013A", <<"U+0139">>>>, <<"U+013C", <<"U+013B">>>>,
    <<"U+013E", <<"U+013D">>>>, <<"U+0140", <<"U+013F">>>>, <<"U+0142", <<"U+0141">>>>,
    <<"U+0144", <<"U+0143">>>>, <<"U+0146", <<"U+0145">>>>, <<"U+0148", <<"U+0147">>>>,
    <<"U+0149", <<"U+02BC", "N">>>>, <<"U+014B", <<"U+014A">>>>, <<"U+014D", <<"U+014C">>>>,
    <<"U+014F", <<"U+014E">>>>, <<"U+0151", <<"U+0150">>>>, <<"U+0153", <<"U+0152">>>>,
    <<"U+0155", <<"U+0154">>>>, <<"U+0157", <<"U+0156">>>>, <<"U+0159", <<"U+0158">>>>,
    <<"U+015B", <<"U+015A">>>>, <<"U+015D", <<"U+015C">>>>, <<"U+015F", <<"U+015E">>>>,
    <<"U+0161", <<"U+0160">>>>, <<"U+0163", <<"U+0162">>>>, <<"U+0165", <<"U+0164">>>>,
    <<"U+0167", <<"U+0166">>>>, <<"U+0169", <<"U+0168">>>>, <<"U+016B", <<"U+016A">>>>,
    <<"U+016D", <<"U+016C">>>>, <<"U+016F", <<"U+016E">>>>, <<"U+0171", <<"U+0170">>>>,
    <<"U+0173", <<"U+0172">>>>, <<"U+0175", <<"U+0174">>>>, <<"U+0177", <<"U+0176">>>>,
    <<"U+017A", <<"U+0179">>>>, <<"U+017C", <<"U+017B">>>>, <<"U+017E", <<"U+017D">>>>,
    <<"U+017F", <<"S">>>>, <<"U+0180", <<"U+0243">>>>, <<"U+0183", <<"U+0182">>>>,
    <<"U+0185", <<"U+0184">>>>, <<"U+0188", <<"U+0187">>>>, <<"U+018C", <<"U+018B">>>>,
    <<"U+0192", <<"U+0191">>>>, <<"U+0195", <<"U+01F6">>>>, <<"U+0199", <<"U+0198">>>>,
    <<"U+019A", <<"U+023D">>>>, <<"U+019E", <<"U+0220">>>>, <<"U+01A1", <<"U+01A0">>>>,
    <<"U+01A3", <<"U+01A2">>>>, <<"U+01A5", <<"U+01A4">>>>, <<"U+01A8", <<"U+01A7">>>>,
    <<"U+01AD", <<"U+01AC">>>>, <<"U+01B0", <<"U+01AF">>>>, <<"U+01B4", <<"U+01B3">>>>,
    <<"U+01B6", <<"U+01B5">>>>, <<"U+01B9", <<"U+01B8">>>>, <<"U+01BD", <<"U+01BC">>>>,
    <<"U+01BF", <<"U+01F7">>>>, <<"U+01C5", <<"U+01C4">>>>, <<"U+01C6", <<"U+01C4">>>>,
    <<"U+01C8", <<"U+01C7">>>>, <<"U+01C9", <<"U+01C7">>>>, <<"U+01CB", <<"U+01CA">>>>,
    <<"U+01CC", <<"U+01CA">>>>, <<"U+01CE", <<"U+01CD">>>>, <<"U+01D0", <<"U+01CF">>>>,
    <<"U+01D2", <<"U+01D1">>>>, <<"U+01D4", <<"U+01D3">>>>, <<"U+01D6", <<"U+01D5">>>>,
    <<"U+01D8", <<"U+01D7">>>>, <<"U+01DA", <<"U+01D9">>>>, <<"U+01DC", <<"U+01DB">>>>,
    <<"U+01DD", <<"U+018E">>>>, <<"U+01DF", <<"U+01DE">>>>, <<"U+01E1", <<"U+01E0">>>>,
    <<"U+01E3", <<"U+01E2">>>>, <<"U+01E5", <<"U+01E4">>>>, <<"U+01E7", <<"U+01E6">>>>,
    <<"U+01E9", <<"U+01E8">>>>, <<"U+01EB", <<"U+01EA">>>>, <<"U+01ED", <<"U+01EC">>>>,
    <<"U+01EF", <<"U+01EE">>>>, <<"U+01F0", <<"J", "U+030C">>>>, <<"U+01F2", <<"U+01F1">>>>,
    <<"U+01F3", <<"U+01F1">>>>, <<"U+01F5", <<"U+01F4">>>>, <<"U+01F9", <<"U+01F8">>>>,
    <<"U+01FB", <<"U+01FA">>>>, <<"U+01FD", <<"U+01FC">>>>, <<"U+01FF", <<"U+01FE">>>>,
    <<"U+0201", <<"U+0200">>>>, <<"U+0203", <<"U+0202">>>>, <<"U+0205", <<"U+0204">>>>,
    <<"U+0207", <<"U+0206">>>>, <<"U+0209", <<"U+0208">>>>, <<"U+020B", <<"U+020A">>>>,
    <<"U+020D", <<"U+020C">>>>, <<"U+020F", <<"U+020E">>>>, <<"U+0211", <<"U+0210">>>>,
    <<"U+0213", <<"U+0212">>>>, <<"U+0215", <<"U+0214">>>>, <<"U+0217", <<"U+0216">>>>,
    <<"U+0219", <<"U+0218">>>>, <<"U+021B", <<"U+021A">>>>, <<"U+021D", <<"U+021C">>>>,
    <<"U+021F", <<"U+021E">>>>, <<"U+0223", <<"U+0222">>>>, <<"U+0225", <<"U+0224">>>>,
    <<"U+0227", <<"U+0226">>>>, <<"U+0229", <<"U+0228">>>>, <<"U+022B", <<"U+022A">>>>,
    <<"U+022D", <<"U+022C">>>>, <<"U+022F", <<"U+022E">>>>, <<"U+0231", <<"U+0230">>>>,
    <<"U+0233", <<"U+0232">>>>, <<"U+023C", <<"U+023B">>>>, <<"U+023F", <<"U+2C7E">>>>,
    <<"U+0240", <<"U+2C7F">>>>, <<"U+0242", <<"U+0241">>>>, <<"U+0247", <<"U+0246">>>>,
    <<"U+0249", <<"U+0248">>>>, <<"U+024B", <<"U+024A">>>>, <<"U+024D", <<"U+024C">>>>,
    <<"U+024F", <<"U+024E">>>>, <<"U+0250", <<"U+2C6F">>>>, <<"U+0251", <<"U+2C6D">>>>,
    <<"U+0252", <<"U+2C70">>>>, <<"U+0253", <<"U+0181">>>>, <<"U+0254", <<"U+0186">>>>,
    <<"U+0256", <<"U+0189">>>>, <<"U+0257", <<"U+018A">>>>, <<"U+0259", <<"U+018F">>>>,
    <<"U+025B", <<"U+0190">>>>, <<"U+025C", <<"U+A7AB">>>>, <<"U+0260", <<"U+0193">>>>,
    <<"U+0261", <<"U+A7AC">>>>, <<"U+0263", <<"U+0194">>>>, <<"U+0265", <<"U+A78D">>>>,
    <<"U+0266", <<"U+A7AA">>>>, <<"U+0268", <<"U+0197">>>>, <<"U+0269", <<"U+0196">>>>,
    <<"U+026A", <<"U+A7AE">>>>, <<"U+026B", <<"U+2C62">>>>, <<"U+026C", <<"U+A7AD">>>>,
    <<"U+026F", <<"U+019C">>>>, <<"U+0271", <<"U+2C6E">>>>, <<"U+0272", <<"U+019D">>>>,
    <<"U+0275", <<"U+019F">>>>, <<"U+027D", <<"U+2C64">>>>, <<"U+0280", <<"U+01A6">>>>,
    <<"U+0282", <<"U+A7C5">>>>, <<"U+0283", <<"U+01A9">>>>, <<"U+0287", <<"U+A7B1">>>>,
    <<"U+0288", <<"U+01AE">>>>, <<"U+0289", <<"U+0244">>>>, <<"U+028A", <<"U+01B1">>>>,
    <<"U+028B", <<"U+01B2">>>>, <<"U+028C", <<"U+0245">>>>, <<"U+0292", <<"U+01B7">>>>,
    <<"U+029D", <<"U+A7B2">>>>, <<"U+029E", <<"U+A7B0">>>>, <<"U+0345", <<"U+0399">>>>,
    <<"U+0371", <<"U+0370">>>>, <<"U+0373", <<"U+0372">>>>, <<"U+0377", <<"U+0376">>>>,
    <<"U+037B", <<"U+03FD">>>>, <<"U+037C", <<"U+03FE">>>>, <<"U+037D", <<"U+03FF">>>>,
    <<"U+0390", <<"U+0399", "U+0308", "U+0301">>>>, <<"U+03AC", <<"U+0386">>>>,
    <<"U+03AD", <<"U+0388">>>>, <<"U+03AE", <<"U+0389">>>>, <<"U+03AF", <<"U+038A">>>>,
    <<"U+03B0", <<"U+03A5", "U+0308", "U+0301">>>>, <<"U+03B1", <<"U+0391">>>>,
    <<"U+03B2", <<"U+0392">>>>, <<"U+03B3", <<"U+0393">>>>, <<"U+03B4", <<"U+0394">>>>,
    <<"U+03B5", <<"U+0395">>>>, <<"U+03B6", <<"U+0396">>>>, <<"U+03B7", <<"U+0397">>>>,
    <<"U+03B8", <<"U+0398">>>>, <<"U+03B9", <<"U+0399">>>>, <<"U+03BA", <<"U+039A">>>>,
    <<"U+03BB", <<"U+039B">>>>, <<"U+03BC", <<"U+039C">>>>, <<"U+03BD", <<"U+039D">>>>,
    <<"U+03BE", <<"U+039E">>>>, <<"U+03BF", <<"U+039F">>>>, <<"U+03C0", <<"U+03A0">>>>,
    <<"U+03C1", <<"U+03A1">>>>, <<"U+03C2", <<"U+03A3">>>>, <<"U+03C3", <<"U+03A3">>>>,
    <<"U+03C4", <<"U+03A4">>>>, <<"U+03C5", <<"U+03A5">>>>, <<"U+03C6", <<"U+03A6">>>>,
    <<"U+03C7", <<"U+03A7">>>>, <<"U+03C8", <<"U+03A8">>>>, <<"U+03C9", <<"U+03A9">>>>,
    <<"U+03CA", <<"U+03AA">>>>, <<"U+03CB", <<"U+03AB">>>>, <<"U+03CC", <<"U+038C">>>>,
    <<"U+03CD", <<"U+038E">>>>, <<"U+03CE", <<"U+038F">>>>, <<"U+03D0", <<"U+0392">>>>,
    <<"U+03D1", <<"U+0398">>>>, <<"U+03D5", <<"U+03A6">>>>, <<"U+03D6", <<"U+03A0">>>>,
    <<"U+03D7", <<"U+03CF">>>>, <<"U+03D9", <<"U+03D8">>>>, <<"U+03DB", <<"U+03DA">>>>,
    <<"U+03DD", <<"U+03DC">>>>, <<"U+03DF", <<"U+03DE">>>>, <<"U+03E1", <<"U+03E0">>>>,
    <<"U+03E3", <<"U+03E2">>>>, <<"U+03E5", <<"U+03E4">>>>, <<"U+03E7", <<"U+03E6">>>>,
    <<"U+03E9", <<"U+03E8">>>>, <<"U+03EB", <<"U+03EA">>>>, <<"U+03ED", <<"U+03EC">>>>,
    <<"U+03EF", <<"U+03EE">>>>, <<"U+03F0", <<"U+039A">>>>, <<"U+03F1", <<"U+03A1">>>>,
    <<"U+03F2", <<"U+03F9">>>>, <<"U+03F3", <<"U+037F">>>>, <<"U+03F5", <<"U+0395">>>>,
    <<"U+03F8", <<"U+03F7">>>>, <<"U+03FB", <<"U+03FA">>>>, <<"U+0430", <<"U+0410">>>>,
    <<"U+0431", <<"U+0411">>>>, <<"U+0432", <<"U+0412">>>>, <<"U+0433", <<"U+0413">>>>,
    <<"U+0434", <<"U+0414">>>>, <<"U+0435", <<"U+0415">>>>, <<"U+0436", <<"U+0416">>>>,
    <<"U+0437", <<"U+0417">>>>, <<"U+0438", <<"U+0418">>>>, <<"U+0439", <<"U+0419">>>>,
    <<"U+043A", <<"U+041A">>>>, <<"U+043B", <<"U+041B">>>>, <<"U+043C", <<"U+041C">>>>,
    <<"U+043D", <<"U+041D">>>>, <<"U+043E", <<"U+041E">>>>, <<"U+043F", <<"U+041F">>>>,
    <<"U+0440", <<"U+0420">>>>, <<"U+0441", <<"U+0421">>>>, <<"U+0442", <<"U+0422">>>>,
    <<"U+0443", <<"U+0423">>>>, <<"U+0444", <<"U+0424">>>>, <<"U+0445", <<"U+0425">>>>,
    <<"U+0446", <<"U+0426">>>>, <<"U+0447", <<"U+0427">>>>, <<"U+0448", <<"U+0428">>>>,
    <<"U+0449", <<"U+0429">>>>, <<"U+044A", <<"U+042A">>>>, <<"U+044B", <<"U+042B">>>>,
    <<"U+044C", <<"U+042C">>>>, <<"U+044D", <<"U+042D">>>>, <<"U+044E", <<"U+042E">>>>,
    <<"U+044F", <<"U+042F">>>>, <<"U+0450", <<"U+0400">>>>, <<"U+0451", <<"U+0401">>>>,
    <<"U+0452", <<"U+0402">>>>, <<"U+0453", <<"U+0403">>>>, <<"U+0454", <<"U+0404">>>>,
    <<"U+0455", <<"U+0405">>>>, <<"U+0456", <<"U+0406">>>>, <<"U+0457", <<"U+0407">>>>,
    <<"U+0458", <<"U+0408">>>>, <<"U+0459", <<"U+0409">>>>, <<"U+045A", <<"U+040A">>>>,
    <<"U+045B", <<"U+040B">>>>, <<"U+045C", <<"U+040C">>>>, <<"U+045D", <<"U+040D">>>>,
    <<"U+045E", <<"U+040E">>>>, <<"U+045F", <<"U+040F">>>>, <<"U+0461", <<"U+0460">>>>,
    <<"U+0463", <<"U+0462">>>>, <<"U+0465", <<"U+0464">>>>, <<"U+0467", <<"U+0466">>>>,
    <<"U+0469", <<"U+0468">>>>, <<"U+046B", <<"U+046A">>>>, <<"U+046D", <<"U+046C">>>>,
    <<"U+046F", <<"U+046E">>>>, <<"U+0471", <<"U+0470">>>>, <<"U+0473", <<"U+0472">>>>,
    <<"U+0475", <<"U+0474">>>>, <<"U+0477", <<"U+0476">>>>, <<"U+0479", <<"U+0478">>>>,
    <<"U+047B", <<"U+047A">>>>, <<"U+047D", <<"U+047C">>>>, <<"U+047F", <<"U+047E">>>>,
    <<"U+0481", <<"U+0480">>>>, <<"U+048B", <<"U+048A">>>>, <<"U+048D", <<"U+048C">>>>,
    <<"U+048F", <<"U+048E">>>>, <<"U+0491", <<"U+0490">>>>, <<"U+0493", <<"U+0492">>>>,
    <<"U+0495", <<"U+0494">>>>, <<"U+0497", <<"U+0496">>>>, <<"U+0499", <<"U+0498">>>>,
    <<"U+049B", <<"U+049A">>>>, <<"U+049D", <<"U+049C">>>>, <<"U+049F", <<"U+049E">>>>,
    <<"U+04A1", <<"U+04A0">>>>, <<"U+04A3", <<"U+04A2">>>>, <<"U+04A5", <<"U+04A4">>>>,
    <<"U+04A7", <<"U+04A6">>>>, <<"U+04A9", <<"U+04A8">>>>, <<"U+04AB", <<"U+04AA">>>>,
    <<"U+04AD", <<"U+04AC">>>>, <<"U+04AF", <<"U+04AE">>>>, <<"U+04B1", <<"U+04B0">>>>,
    <<"U+04B3", <<"U+04B2">>>>, <<"U+04B5", <<"U+04B4">>>>, <<"U+04B7", <<"U+04B6">>>>,
    <<"U+04B9", <<"U+04B8">>>>, <<"U+04BB", <<"U+04BA">>>>, <<"U+04BD", <<"U+04BC">>>>,
    <<"U+04BF", <<"U+04BE">>>>, <<"U+04C2", <<"U+04C1">>>>, <<"U+04C4", <<"U+04C3">>>>,
    <<"U+04C6", <<"U+04C5">>>>, <<"U+04C8", <<"U+04C7">>>>, <<"U+04CA", <<"U+04C9">>>>,
    <<"U+04CC", <<"U+04CB">>>>, <<"U+04CE", <<"U+04CD">>>>, <<"U+04CF", <<"U+04C0">>>>,
    <<"U+04D1", <<"U+04D0">>>>, <<"U+04D3", <<"U+04D2">>>>, <<"U+04D5", <<"U+04D4">>>>,
    <<"U+04D7", <<"U+04D6">>>>, <<"U+04D9", <<"U+04D8">>>>, <<"U+04DB", <<"U+04DA">>>>,
    <<"U+04DD", <<"U+04DC">>>>, <<"U+04DF", <<"U+04DE">>>>, <<"U+04E1", <<"U+04E0">>>>,
    <<"U+04E3", <<"U+04E2">>>>, <<"U+04E5", <<"U+04E4">>>>, <<"U+04E7", <<"U+04E6">>>>,
    <<"U+04E9", <<"U+04E8">>>>, <<"U+04EB", <<"U+04EA">>>>, <<"U+04ED", <<"U+04EC">>>>,
    <<"U+04EF", <<"U+04EE">>>>, <<"U+04F1", <<"U+04F0">>>>, <<"U+04F3", <<"U+04F2">>>>,
    <<"U+04F5", <<"U+04F4">>>>, <<"U+04F7", <<"U+04F6">>>>, <<"U+04F9", <<"U+04F8">>>>,
    <<"U+04FB", <<"U+04FA">>>>, <<"U+04FD", <<"U+04FC">>>>, <<"U+04FF", <<"U+04FE">>>>,
    <<"U+0501", <<"U+0500">>>>, <<"U+0503", <<"U+0502">>>>, <<"U+0505", <<"U+0504">>>>,
    <<"U+0507", <<"U+0506">>>>, <<"U+0509", <<"U+0508">>>>, <<"U+050B", <<"U+050A">>>>,
    <<"U+050D", <<"U+050C">>>>, <<"U+050F", <<"U+050E">>>>, <<"U+0511", <<"U+0510">>>>,
    <<"U+0513", <<"U+0512">>>>, <<"U+0515", <<"U+0514">>>>, <<"U+0517", <<"U+0516">>>>,
    <<"U+0519", <<"U+0518">>>>, <<"U+051B", <<"U+051A">>>>, <<"U+051D", <<"U+051C">>>>,
    <<"U+051F", <<"U+051E">>>>, <<"U+0521", <<"U+0520">>>>, <<"U+0523", <<"U+0522">>>>,
    <<"U+0525", <<"U+0524">>>>, <<"U+0527", <<"U+0526">>>>, <<"U+0529", <<"U+0528">>>>,
    <<"U+052B", <<"U+052A">>>>, <<"U+052D", <<"U+052C">>>>, <<"U+052F", <<"U+052E">>>>,
    <<"U+0561", <<"U+0531">>>>, <<"U+0562", <<"U+0532">>>>, <<"U+0563", <<"U+0533">>>>,
    <<"U+0564", <<"U+0534">>>>, <<"U+0565", <<"U+0535">>>>, <<"U+0566", <<"U+0536">>>>,
    <<"U+0567", <<"U+0537">>>>, <<"U+0568", <<"U+0538">>>>, <<"U+0569", <<"U+0539">>>>,
    <<"U+056A", <<"U+053A">>>>, <<"U+056B", <<"U+053B">>>>, <<"U+056C", <<"U+053C">>>>,
    <<"U+056D", <<"U+053D">>>>, <<"U+056E", <<"U+053E">>>>, <<"U+056F", <<"U+053F">>>>,
    <<"U+0570", <<"U+0540">>>>, <<"U+0571", <<"U+0541">>>>, <<"U+0572", <<"U+0542">>>>,
    <<"U+0573", <<"U+0543">>>>, <<"U+0574", <<"U+0544">>>>, <<"U+0575", <<"U+0545">>>>,
    <<"U+0576", <<"U+0546">>>>, <<"U+0577", <<"U+0547">>>>, <<"U+0578", <<"U+0548">>>>,
    <<"U+0579", <<"U+0549">>>>, <<"U+057A", <<"U+054A">>>>, <<"U+057B", <<"U+054B">>>>,
    <<"U+057C", <<"U+054C">>>>, <<"U+057D", <<"U+054D">>>>, <<"U+057E", <<"U+054E">>>>,
    <<"U+057F", <<"U+054F">>>>, <<"U+0580", <<"U+0550">>>>, <<"U+0581", <<"U+0551">>>>,
    <<"U+0582", <<"U+0552">>>>, <<"U+0583", <<"U+0553">>>>, <<"U+0584", <<"U+0554">>>>,
    <<"U+0585", <<"U+0555">>>>, <<"U+0586", <<"U+0556">>>>, <<"U+0587", <<"U+0535", "U+0552">>>>,
    <<"U+10D0", <<"U+1C90">>>>, <<"U+10D1", <<"U+1C91">>>>, <<"U+10D2", <<"U+1C92">>>>,
    <<"U+10D3", <<"U+1C93">>>>, <<"U+10D4", <<"U+1C94">>>>, <<"U+10D5", <<"U+1C95">>>>,
    <<"U+10D6", <<"U+1C96">>>>, <<"U+10D7", <<"U+1C97">>>>, <<"U+10D8", <<"U+1C98">>>>,
    <<"U+10D9", <<"U+1C99">>>>, <<"U+10DA", <<"U+1C9A">>>>, <<"U+10DB", <<"U+1C9B">>>>,
    <<"U+10DC", <<"U+1C9C">>>>, <<"U+10DD", <<"U+1C9D">>>>, <<"U+10DE", <<"U+1C9E">>>>,
    <<"U+10DF", <<"U+1C9F">>>>, <<"U+10E0", <<"U+1CA0">>>>, <<"U+10E1", <<"U+1CA1">>>>,
    <<"U+10E2", <<"U+1CA2">>>>, <<"U+10E3", <<"U+1CA3">>>>, <<"U+10E4", <<"U+1CA4">>>>,
    <<"U+10E5", <<"U+1CA5">>>>, <<"U+10E6", <<"U+1CA6">>>>, <<"U+10E7", <<"U+1CA7">>>>,
    <<"U+10E8", <<"U+1CA8">>>>, <<"U+10E9", <<"U+1CA9">>>>, <<"U+10EA", <<"U+1CAA">>>>,
    <<"U+10EB", <<"U+1CAB">>>>, <<"U+10EC", <<"U+1CAC">>>>, <<"U+10ED", <<"U+1CAD">>>>,
    <<"U+10EE", <<"U+1CAE">>>>, <<"U+10EF", <<"U+1CAF">>>>, <<"U+10F0", <<"U+1CB0">>>>,
    <<"U+10F1", <<"U+1CB1">>>>, <<"U+10F2", <<"U+1CB2">>>>, <<"U+10F3", <<"U+1CB3">>>>,
    <<"U+10F4", <<"U+1CB4">>>>, <<"U+10F5", <<"U+1CB5">>>>, <<"U+10F6", <<"U+1CB6">>>>,
    <<"U+10F7", <<"U+1CB7">>>>, <<"U+10F8", <<"U+1CB8">>>>, <<"U+10F9", <<"U+1CB9">>>>,
    <<"U+10FA", <<"U+1CBA">>>>, <<"U+10FD", <<"U+1CBD">>>>, <<"U+10FE", <<"U+1CBE">>>>,
    <<"U+10FF", <<"U+1CBF">>>>, <<"U+13F8", <<"U+13F0">>>>, <<"U+13F9", <<"U+13F1">>>>,
    <<"U+13FA", <<"U+13F2">>>>, <<"U+13FB", <<"U+13F3">>>>, <<"U+13FC", <<"U+13F4">>>>,
    <<"U+13FD", <<"U+13F5">>>>, <<"U+1C80", <<"U+0412">>>>, <<"U+1C81", <<"U+0414">>>>,
    <<"U+1C82", <<"U+041E">>>>, <<"U+1C83", <<"U+0421">>>>, <<"U+1C84", <<"U+0422">>>>,
    <<"U+1C85", <<"U+0422">>>>, <<"U+1C86", <<"U+042A">>>>, <<"U+1C87", <<"U+0462">>>>,
    <<"U+1C88", <<"U+A64A">>>>, <<"U+1D79", <<"U+A77D">>>>, <<"U+1D7D", <<"U+2C63">>>>,
    <<"U+1D8E", <<"U+A7C6">>>>, <<"U+1E01", <<"U+1E00">>>>, <<"U+1E03", <<"U+1E02">>>>,
    <<"U+1E05", <<"U+1E04">>>>, <<"U+1E07", <<"U+1E06">>>>, <<"U+1E09", <<"U+1E08">>>>,
    <<"U+1E0B", <<"U+1E0A">>>>, <<"U+1E0D", <<"U+1E0C">>>>, <<"U+1E0F", <<"U+1E0E">>>>,
    <<"U+1E11", <<"U+1E10">>>>, <<"U+1E13", <<"U+1E12">>>>, <<"U+1E15", <<"U+1E14">>>>,
    <<"U+1E17", <<"U+1E16">>>>, <<"U+1E19", <<"U+1E18">>>>, <<"U+1E1B", <<"U+1E1A">>>>,
    <<"U+1E1D", <<"U+1E1C">>>>, <<"U+1E1F", <<"U+1E1E">>>>, <<"U+1E21", <<"U+1E20">>>>,
    <<"U+1E23", <<"U+1E22">>>>, <<"U+1E25", <<"U+1E24">>>>, <<"U+1E27", <<"U+1E26">>>>,
    <<"U+1E29", <<"U+1E28">>>>, <<"U+1E2B", <<"U+1E2A">>>>, <<"U+1E2D", <<"U+1E2C">>>>,
    <<"U+1E2F", <<"U+1E2E">>>>, <<"U+1E31", <<"U+1E30">>>>, <<"U+1E33", <<"U+1E32">>>>,
    <<"U+1E35", <<"U+1E34">>>>, <<"U+1E37", <<"U+1E36">>>>, <<"U+1E39", <<"U+1E38">>>>,
    <<"U+1E3B", <<"U+1E3A">>>>, <<"U+1E3D", <<"U+1E3C">>>>, <<"U+1E3F", <<"U+1E3E">>>>,
    <<"U+1E41", <<"U+1E40">>>>, <<"U+1E43", <<"U+1E42">>>>, <<"U+1E45", <<"U+1E44">>>>,
    <<"U+1E47", <<"U+1E46">>>>, <<"U+1E49", <<"U+1E48">>>>, <<"U+1E4B", <<"U+1E4A">>>>,
    <<"U+1E4D", <<"U+1E4C">>>>, <<"U+1E4F", <<"U+1E4E">>>>, <<"U+1E51", <<"U+1E50">>>>,
    <<"U+1E53", <<"U+1E52">>>>, <<"U+1E55", <<"U+1E54">>>>, <<"U+1E57", <<"U+1E56">>>>,
    <<"U+1E59", <<"U+1E58">>>>, <<"U+1E5B", <<"U+1E5A">>>>, <<"U+1E5D", <<"U+1E5C">>>>,
    <<"U+1E5F", <<"U+1E5E">>>>, <<"U+1E61", <<"U+1E60">>>>, <<"U+1E63", <<"U+1E62">>>>,
    <<"U+1E65", <<"U+1E64">>>>, <<"U+1E67", <<"U+1E66">>>>, <<"U+1E69", <<"U+1E68">>>>,
    <<"U+1E6B", <<"U+1E6A">>>>, <<"U+1E6D", <<"U+1E6C">>>>, <<"U+1E6F", <<"U+1E6E">>>>,
    <<"U+1E71", <<"U+1E70">>>>, <<"U+1E73", <<"U+1E72">>>>, <<"U+1E75", <<"U+1E74">>>>,
    <<"U+1E77", <<"U+1E76">>>>, <<"U+1E79", <<"U+1E78">>>>, <<"U+1E7B", <<"U+1E7A">>>>,
    <<"U+1E7D", <<"U+1E7C">>>>, <<"U+1E7F", <<"U+1E7E">>>>, <<"U+1E81", <<"U+1E80">>>>,
    <<"U+1E83", <<"U+1E82">>>>, <<"U+1E85", <<"U+1E84">>>>, <<"U+1E87", <<"U+1E86">>>>,
    <<"U+1E89", <<"U+1E88">>>>, <<"U+1E8B", <<"U+1E8A">>>>, <<"U+1E8D", <<"U+1E8C">>>>,
    <<"U+1E8F", <<"U+1E8E">>>>, <<"U+1E91", <<"U+1E90">>>>, <<"U+1E93", <<"U+1E92">>>>,
    <<"U+1E95", <<"U+1E94">>>>, <<"U+1E96", <<"H", "U+0331">>>>, <<"U+1E97", <<"T", "U+0308">>>>,
    <<"U+1E98", <<"W", "U+030A">>>>, <<"U+1E99", <<"Y", "U+030A">>>>,
    <<"U+1E9A", <<"A", "U+02BE">>>>, <<"U+1E9B", <<"U+1E60">>>>, <<"U+1EA1", <<"U+1EA0">>>>,
    <<"U+1EA3", <<"U+1EA2">>>>, <<"U+1EA5", <<"U+1EA4">>>>, <<"U+1EA7", <<"U+1EA6">>>>,
    <<"U+1EA9", <<"U+1EA8">>>>, <<"U+1EAB", <<"U+1EAA">>>>, <<"U+1EAD", <<"U+1EAC">>>>,
    <<"U+1EAF", <<"U+1EAE">>>>, <<"U+1EB1", <<"U+1EB0">>>>, <<"U+1EB3", <<"U+1EB2">>>>,
    <<"U+1EB5", <<"U+1EB4">>>>, <<"U+1EB7", <<"U+1EB6">>>>, <<"U+1EB9", <<"U+1EB8">>>>,
    <<"U+1EBB", <<"U+1EBA">>>>, <<"U+1EBD", <<"U+1EBC">>>>, <<"U+1EBF", <<"U+1EBE">>>>,
    <<"U+1EC1", <<"U+1EC0">>>>, <<"U+1EC3", <<"U+1EC2">>>>, <<"U+1EC5", <<"U+1EC4">>>>,
    <<"U+1EC7", <<"U+1EC6">>>>, <<"U+1EC9", <<"U+1EC8">>>>, <<"U+1ECB", <<"U+1ECA">>>>,
    <<"U+1ECD", <<"U+1ECC">>>>, <<"U+1ECF", <<"U+1ECE">>>>, <<"U+1ED1", <<"U+1ED0">>>>,
    <<"U+1ED3", <<"U+1ED2">>>>, <<"U+1ED5", <<"U+1ED4">>>>, <<"U+1ED7", <<"U+1ED6">>>>,
    <<"U+1ED9", <<"U+1ED8">>>>, <<"U+1EDB", <<"U+1EDA">>>>, <<"U+1EDD", <<"U+1EDC">>>>,
    <<"U+1EDF", <<"U+1EDE">>>>, <<"U+1EE1", <<"U+1EE0">>>>, <<"U+1EE3", <<"U+1EE2">>>>,
    <<"U+1EE5", <<"U+1EE4">>>>, <<"U+1EE7", <<"U+1EE6">>>>, <<"U+1EE9", <<"U+1EE8">>>>,
    <<"U+1EEB", <<"U+1EEA">>>>, <<"U+1EED", <<"U+1EEC">>>>, <<"U+1EEF", <<"U+1EEE">>>>,
    <<"U+1EF1", <<"U+1EF0">>>>, <<"U+1EF3", <<"U+1EF2">>>>, <<"U+1EF5", <<"U+1EF4">>>>,
    <<"U+1EF7", <<"U+1EF6">>>>, <<"U+1EF9", <<"U+1EF8">>>>, <<"U+1EFB", <<"U+1EFA">>>>,
    <<"U+1EFD", <<"U+1EFC">>>>, <<"U+1EFF", <<"U+1EFE">>>>, <<"U+1F00", <<"U+1F08">>>>,
    <<"U+1F01", <<"U+1F09">>>>, <<"U+1F02", <<"U+1F0A">>>>, <<"U+1F03", <<"U+1F0B">>>>,
    <<"U+1F04", <<"U+1F0C">>>>, <<"U+1F05", <<"U+1F0D">>>>, <<"U+1F06", <<"U+1F0E">>>>,
    <<"U+1F07", <<"U+1F0F">>>>, <<"U+1F10", <<"U+1F18">>>>, <<"U+1F11", <<"U+1F19">>>>,
    <<"U+1F12", <<"U+1F1A">>>>, <<"U+1F13", <<"U+1F1B">>>>, <<"U+1F14", <<"U+1F1C">>>>,
    <<"U+1F15", <<"U+1F1D">>>>, <<"U+1F20", <<"U+1F28">>>>, <<"U+1F21", <<"U+1F29">>>>,
    <<"U+1F22", <<"U+1F2A">>>>, <<"U+1F23", <<"U+1F2B">>>>, <<"U+1F24", <<"U+1F2C">>>>,
    <<"U+1F25", <<"U+1F2D">>>>, <<"U+1F26", <<"U+1F2E">>>>, <<"U+1F27", <<"U+1F2F">>>>,
    <<"U+1F30", <<"U+1F38">>>>, <<"U+1F31", <<"U+1F39">>>>, <<"U+1F32", <<"U+1F3A">>>>,
    <<"U+1F33", <<"U+1F3B">>>>, <<"U+1F34", <<"U+1F3C">>>>, <<"U+1F35", <<"U+1F3D">>>>,
    <<"U+1F36", <<"U+1F3E">>>>, <<"U+1F37", <<"U+1F3F">>>>, <<"U+1F40", <<"U+1F48">>>>,
    <<"U+1F41", <<"U+1F49">>>>, <<"U+1F42", <<"U+1F4A">>>>, <<"U+1F43", <<"U+1F4B">>>>,
    <<"U+1F44", <<"U+1F4C">>>>, <<"U+1F45", <<"U+1F4D">>>>, <<"U+1F50", <<"U+03A5", "U+0313">>>>,
    <<"U+1F51", <<"U+1F59">>>>, <<"U+1F52", <<"U+03A5", "U+0313", "U+0300">>>>,
    <<"U+1F53", <<"U+1F5B">>>>, <<"U+1F54", <<"U+03A5", "U+0313", "U+0301">>>>,
    <<"U+1F55", <<"U+1F5D">>>>, <<"U+1F56", <<"U+03A5", "U+0313", "U+0342">>>>,
    <<"U+1F57", <<"U+1F5F">>>>, <<"U+1F60", <<"U+1F68">>>>, <<"U+1F61", <<"U+1F69">>>>,
    <<"U+1F62", <<"U+1F6A">>>>, <<"U+1F63", <<"U+1F6B">>>>, <<"U+1F64", <<"U+1F6C">>>>,
    <<"U+1F65", <<"U+1F6D">>>>, <<"U+1F66", <<"U+1F6E">>>>, <<"U+1F67", <<"U+1F6F">>>>,
    <<"U+1F70", <<"U+1FBA">>>>, <<"U+1F71", <<"U+1FBB">>>>, <<"U+1F72", <<"U+1FC8">>>>,
    <<"U+1F73", <<"U+1FC9">>>>, <<"U+1F74", <<"U+1FCA">>>>, <<"U+1F75", <<"U+1FCB">>>>,
    <<"U+1F76", <<"U+1FDA">>>>, <<"U+1F77", <<"U+1FDB">>>>, <<"U+1F78", <<"U+1FF8">>>>,
    <<"U+1F79", <<"U+1FF9">>>>, <<"U+1F7A", <<"U+1FEA">>>>, <<"U+1F7B", <<"U+1FEB">>>>,
    <<"U+1F7C", <<"U+1FFA">>>>, <<"U+1F7D", <<"U+1FFB">>>>, <<"U+1F80", <<"U+1F08", "U+0399">>>>,
    <<"U+1F81", <<"U+1F09", "U+0399">>>>, <<"U+1F82", <<"U+1F0A", "U+0399">>>>,
    <<"U+1F83", <<"U+1F0B", "U+0399">>>>, <<"U+1F84", <<"U+1F0C", "U+0399">>>>,
    <<"U+1F85", <<"U+1F0D", "U+0399">>>>, <<"U+1F86", <<"U+1F0E", "U+0399">>>>,
    <<"U+1F87", <<"U+1F0F", "U+0399">>>>, <<"U+1F88", <<"U+1F08", "U+0399">>>>,
    <<"U+1F89", <<"U+1F09", "U+0399">>>>, <<"U+1F8A", <<"U+1F0A", "U+0399">>>>,
    <<"U+1F8B", <<"U+1F0B", "U+0399">>>>, <<"U+1F8C", <<"U+1F0C", "U+0399">>>>,
    <<"U+1F8D", <<"U+1F0D", "U+0399">>>>, <<"U+1F8E", <<"U+1F0E", "U+0399">>>>,
    <<"U+1F8F", <<"U+1F0F", "U+0399">>>>, <<"U+1F90", <<"U+1F28", "U+0399">>>>,
    <<"U+1F91", <<"U+1F29", "U+0399">>>>, <<"U+1F92", <<"U+1F2A", "U+0399">>>>,
    <<"U+1F93", <<"U+1F2B", "U+0399">>>>, <<"U+1F94", <<"U+1F2C", "U+0399">>>>,
    <<"U+1F95", <<"U+1F2D", "U+0399">>>>, <<"U+1F96", <<"U+1F2E", "U+0399">>>>,
    <<"U+1F97", <<"U+1F2F", "U+0399">>>>, <<"U+1F98", <<"U+1F28", "U+0399">>>>,
    <<"U+1F99", <<"U+1F29", "U+0399">>>>, <<"U+1F9A", <<"U+1F2A", "U+0399">>>>,
    <<"U+1F9B", <<"U+1F2B", "U+0399">>>>, <<"U+1F9C", <<"U+1F2C", "U+0399">>>>,
    <<"U+1F9D", <<"U+1F2D", "U+0399">>>>, <<"U+1F9E", <<"U+1F2E", "U+0399">>>>,
    <<"U+1F9F", <<"U+1F2F", "U+0399">>>>, <<"U+1FA0", <<"U+1F68", "U+0399">>>>,
    <<"U+1FA1", <<"U+1F69", "U+0399">>>>, <<"U+1FA2", <<"U+1F6A", "U+0399">>>>,
    <<"U+1FA3", <<"U+1F6B", "U+0399">>>>, <<"U+1FA4", <<"U+1F6C", "U+0399">>>>,
    <<"U+1FA5", <<"U+1F6D", "U+0399">>>>, <<"U+1FA6", <<"U+1F6E", "U+0399">>>>,
    <<"U+1FA7", <<"U+1F6F", "U+0399">>>>, <<"U+1FA8", <<"U+1F68", "U+0399">>>>,
    <<"U+1FA9", <<"U+1F69", "U+0399">>>>, <<"U+1FAA", <<"U+1F6A", "U+0399">>>>,
    <<"U+1FAB", <<"U+1F6B", "U+0399">>>>, <<"U+1FAC", <<"U+1F6C", "U+0399">>>>,
    <<"U+1FAD", <<"U+1F6D", "U+0399">>>>, <<"U+1FAE", <<"U+1F6E", "U+0399">>>>,
    <<"U+1FAF", <<"U+1F6F", "U+0399">>>>, <<"U+1FB0", <<"U+1FB8">>>>, <<"U+1FB1", <<"U+1FB9">>>>,
    <<"U+1FB2", <<"U+1FBA", "U+0399">>>>, <<"U+1FB3", <<"U+0391", "U+0399">>>>,
    <<"U+1FB4", <<"U+0386", "U+0399">>>>, <<"U+1FB6", <<"U+0391", "U+0342">>>>,
    <<"U+1FB7", <<"U+0391", "U+0342", "U+0399">>>>, <<"U+1FBC", <<"U+0391", "U+0399">>>>,
    <<"U+1FBE", <<"U+0399">>>>, <<"U+1FC2", <<"U+1FCA", "U+0399">>>>,
    <<"U+1FC3", <<"U+0397", "U+0399">>>>, <<"U+1FC4", <<"U+0389", "U+0399">>>>,
    <<"U+1FC6", <<"U+0397", "U+0342">>>>, <<"U+1FC7", <<"U+0397", "U+0342", "U+0399">>>>,
    <<"U+1FCC", <<"U+0397", "U+0399">>>>, <<"U+1FD0", <<"U+1FD8">>>>, <<"U+1FD1", <<"U+1FD9">>>>,
    <<"U+1FD2", <<"U+0399", "U+0308", "U+0300">>>>, <<"U+1FD3", <<"U+0399", "U+0308", "U+0301">>>>,
    <<"U+1FD6", <<"U+0399", "U+0342">>>>, <<"U+1FD7", <<"U+0399", "U+0308", "U+0342">>>>,
    <<"U+1FE0", <<"U+1FE8">>>>, <<"U+1FE1", <<"U+1FE9">>>>,
    <<"U+1FE2", <<"U+03A5", "U+0308", "U+0300">>>>, <<"U+1FE3", <<"U+03A5", "U+0308", "U+0301">>>>,
    <<"U+1FE4", <<"U+03A1", "U+0313">>>>, <<"U+1FE5", <<"U+1FEC">>>>,
    <<"U+1FE6", <<"U+03A5", "U+0342">>>>, <<"U+1FE7", <<"U+03A5", "U+0308", "U+0342">>>>,
    <<"U+1FF2", <<"U+1FFA", "U+0399">>>>, <<"U+1FF3", <<"U+03A9", "U+0399">>>>,
    <<"U+1FF4", <<"U+038F", "U+0399">>>>, <<"U+1FF6", <<"U+03A9", "U+0342">>>>,
    <<"U+1FF7", <<"U+03A9", "U+0342", "U+0399">>>>, <<"U+1FFC", <<"U+03A9", "U+0399">>>>,
    <<"U+214E", <<"U+2132">>>>, <<"U+2170", <<"U+2160">>>>, <<"U+2171", <<"U+2161">>>>,
    <<"U+2172", <<"U+2162">>>>, <<"U+2173", <<"U+2163">>>>, <<"U+2174", <<"U+2164">>>>,
    <<"U+2175", <<"U+2165">>>>, <<"U+2176", <<"U+2166">>>>, <<"U+2177", <<"U+2167">>>>,
    <<"U+2178", <<"U+2168">>>>, <<"U+2179", <<"U+2169">>>>, <<"U+217A", <<"U+216A">>>>,
    <<"U+217B", <<"U+216B">>>>, <<"U+217C", <<"U+216C">>>>, <<"U+217D", <<"U+216D">>>>,
    <<"U+217E", <<"U+216E">>>>, <<"U+217F", <<"U+216F">>>>, <<"U+2184", <<"U+2183">>>>,
    <<"U+24D0", <<"U+24B6">>>>, <<"U+24D1", <<"U+24B7">>>>, <<"U+24D2", <<"U+24B8">>>>,
    <<"U+24D3", <<"U+24B9">>>>, <<"U+24D4", <<"U+24BA">>>>, <<"U+24D5", <<"U+24BB">>>>,
    <<"U+24D6", <<"U+24BC">>>>, <<"U+24D7", <<"U+24BD">>>>, <<"U+24D8", <<"U+24BE">>>>,
    <<"U+24D9", <<"U+24BF">>>>, <<"U+24DA", <<"U+24C0">>>>, <<"U+24DB", <<"U+24C1">>>>,
    <<"U+24DC", <<"U+24C2">>>>, <<"U+24DD", <<"U+24C3">>>>, <<"U+24DE", <<"U+24C4">>>>,
    <<"U+24DF", <<"U+24C5">>>>, <<"U+24E0", <<"U+24C6">>>>, <<"U+24E1", <<"U+24C7">>>>,
    <<"U+24E2", <<"U+24C8">>>>, <<"U+24E3", <<"U+24C9">>>>, <<"U+24E4", <<"U+24CA">>>>,
    <<"U+24E5", <<"U+24CB">>>>, <<"U+24E6", <<"U+24CC">>>>, <<"U+24E7", <<"U+24CD">>>>,
    <<"U+24E8", <<"U+24CE">>>>, <<"U+24E9", <<"U+24CF">>>>, <<"U+2C30", <<"U+2C00">>>>,
    <<"U+2C31", <<"U+2C01">>>>, <<"U+2C32", <<"U+2C02">>>>, <<"U+2C33", <<"U+2C03">>>>,
    <<"U+2C34", <<"U+2C04">>>>, <<"U+2C35", <<"U+2C05">>>>, <<"U+2C36", <<"U+2C06">>>>,
    <<"U+2C37", <<"U+2C07">>>>, <<"U+2C38", <<"U+2C08">>>>, <<"U+2C39", <<"U+2C09">>>>,
    <<"U+2C3A", <<"U+2C0A">>>>, <<"U+2C3B", <<"U+2C0B">>>>, <<"U+2C3C", <<"U+2C0C">>>>,
    <<"U+2C3D", <<"U+2C0D">>>>, <<"U+2C3E", <<"U+2C0E">>>>, <<"U+2C3F", <<"U+2C0F">>>>,
    <<"U+2C40", <<"U+2C10">>>>, <<"U+2C41", <<"U+2C11">>>>, <<"U+2C42", <<"U+2C12">>>>,
    <<"U+2C43", <<"U+2C13">>>>, <<"U+2C44", <<"U+2C14">>>>, <<"U+2C45", <<"U+2C15">>>>,
    <<"U+2C46", <<"U+2C16">>>>, <<"U+2C47", <<"U+2C17">>>>, <<"U+2C48", <<"U+2C18">>>>,
    <<"U+2C49", <<"U+2C19">>>>, <<"U+2C4A", <<"U+2C1A">>>>, <<"U+2C4B", <<"U+2C1B">>>>,
    <<"U+2C4C", <<"U+2C1C">>>>, <<"U+2C4D", <<"U+2C1D">>>>, <<"U+2C4E", <<"U+2C1E">>>>,
    <<"U+2C4F", <<"U+2C1F">>>>, <<"U+2C50", <<"U+2C20">>>>, <<"U+2C51", <<"U+2C21">>>>,
    <<"U+2C52", <<"U+2C22">>>>, <<"U+2C53", <<"U+2C23">>>>, <<"U+2C54", <<"U+2C24">>>>,
    <<"U+2C55", <<"U+2C25">>>>, <<"U+2C56", <<"U+2C26">>>>, <<"U+2C57", <<"U+2C27">>>>,
    <<"U+2C58", <<"U+2C28">>>>, <<"U+2C59", <<"U+2C29">>>>, <<"U+2C5A", <<"U+2C2A">>>>,
    <<"U+2C5B", <<"U+2C2B">>>>, <<"U+2C5C", <<"U+2C2C">>>>, <<"U+2C5D", <<"U+2C2D">>>>,
    <<"U+2C5E", <<"U+2C2E">>>>, <<"U+2C5F", <<"U+2C2F">>>>, <<"U+2C61", <<"U+2C60">>>>,
    <<"U+2C65", <<"U+023A">>>>, <<"U+2C66", <<"U+023E">>>>, <<"U+2C68", <<"U+2C67">>>>,
    <<"U+2C6A", <<"U+2C69">>>>, <<"U+2C6C", <<"U+2C6B">>>>, <<"U+2C73", <<"U+2C72">>>>,
    <<"U+2C76", <<"U+2C75">>>>, <<"U+2C81", <<"U+2C80">>>>, <<"U+2C83", <<"U+2C82">>>>,
    <<"U+2C85", <<"U+2C84">>>>, <<"U+2C87", <<"U+2C86">>>>, <<"U+2C89", <<"U+2C88">>>>,
    <<"U+2C8B", <<"U+2C8A">>>>, <<"U+2C8D", <<"U+2C8C">>>>, <<"U+2C8F", <<"U+2C8E">>>>,
    <<"U+2C91", <<"U+2C90">>>>, <<"U+2C93", <<"U+2C92">>>>, <<"U+2C95", <<"U+2C94">>>>,
    <<"U+2C97", <<"U+2C96">>>>, <<"U+2C99", <<"U+2C98">>>>, <<"U+2C9B", <<"U+2C9A">>>>,
    <<"U+2C9D", <<"U+2C9C">>>>, <<"U+2C9F", <<"U+2C9E">>>>, <<"U+2CA1", <<"U+2CA0">>>>,
    <<"U+2CA3", <<"U+2CA2">>>>, <<"U+2CA5", <<"U+2CA4">>>>, <<"U+2CA7", <<"U+2CA6">>>>,
    <<"U+2CA9", <<"U+2CA8">>>>, <<"U+2CAB", <<"U+2CAA">>>>, <<"U+2CAD", <<"U+2CAC">>>>,
    <<"U+2CAF", <<"U+2CAE">>>>, <<"U+2CB1", <<"U+2CB0">>>>, <<"U+2CB3", <<"U+2CB2">>>>,
    <<"U+2CB5", <<"U+2CB4">>>>, <<"U+2CB7", <<"U+2CB6">>>>, <<"U+2CB9", <<"U+2CB8">>>>,
    <<"U+2CBB", <<"U+2CBA">>>>, <<"U+2CBD", <<"U+2CBC">>>>, <<"U+2CBF", <<"U+2CBE">>>>,
    <<"U+2CC1", <<"U+2CC0">>>>, <<"U+2CC3", <<"U+2CC2">>>>, <<"U+2CC5", <<"U+2CC4">>>>,
    <<"U+2CC7", <<"U+2CC6">>>>, <<"U+2CC9", <<"U+2CC8">>>>, <<"U+2CCB", <<"U+2CCA">>>>,
    <<"U+2CCD", <<"U+2CCC">>>>, <<"U+2CCF", <<"U+2CCE">>>>, <<"U+2CD1", <<"U+2CD0">>>>,
    <<"U+2CD3", <<"U+2CD2">>>>, <<"U+2CD5", <<"U+2CD4">>>>, <<"U+2CD7", <<"U+2CD6">>>>,
    <<"U+2CD9", <<"U+2CD8">>>>, <<"U+2CDB", <<"U+2CDA">>>>, <<"U+2CDD", <<"U+2CDC">>>>,
    <<"U+2CDF", <<"U+2CDE">>>>, <<"U+2CE1", <<"U+2CE0">>>>, <<"U+2CE3", <<"U+2CE2">>>>,
    <<"U+2CEC", <<"U+2CEB">>>>, <<"U+2CEE", <<"U+2CED">>>>, <<"U+2CF3", <<"U+2CF2">>>>,
    <<"U+2D00", <<"U+10A0">>>>, <<"U+2D01", <<"U+10A1">>>>, <<"U+2D02", <<"U+10A2">>>>,
    <<"U+2D03", <<"U+10A3">>>>, <<"U+2D04", <<"U+10A4">>>>, <<"U+2D05", <<"U+10A5">>>>,
    <<"U+2D06", <<"U+10A6">>>>, <<"U+2D07", <<"U+10A7">>>>, <<"U+2D08", <<"U+10A8">>>>,
    <<"U+2D09", <<"U+10A9">>>>, <<"U+2D0A", <<"U+10AA">>>>, <<"U+2D0B", <<"U+10AB">>>>,
    <<"U+2D0C", <<"U+10AC">>>>, <<"U+2D0D", <<"U+10AD">>>>, <<"U+2D0E", <<"U+10AE">>>>,
    <<"U+2D0F", <<"U+10AF">>>>, <<"U+2D10", <<"U+10B0">>>>, <<"U+2D11", <<"U+10B1">>>>,
    <<"U+2D12", <<"U+10B2">>>>, <<"U+2D13", <<"U+10B3">>>>, <<"U+2D14", <<"U+10B4">>>>,
    <<"U+2D15", <<"U+10B5">>>>, <<"U+2D16", <<"U+10B6">>>>, <<"U+2D17", <<"U+10B7">>>>,
    <<"U+2D18", <<"U+10B8">>>>, <<"U+2D19", <<"U+10B9">>>>, <<"U+2D1A", <<"U+10BA">>>>,
    <<"U+2D1B", <<"U+10BB">>>>, <<"U+2D1C", <<"U+10BC">>>>, <<"U+2D1D", <<"U+10BD">>>>,
    <<"U+2D1E", <<"U+10BE">>>>, <<"U+2D1F", <<"U+10BF">>>>, <<"U+2D20", <<"U+10C0">>>>,
    <<"U+2D21", <<"U+10C1">>>>, <<"U+2D22", <<"U+10C2">>>>, <<"U+2D23", <<"U+10C3">>>>,
    <<"U+2D24", <<"U+10C4">>>>, <<"U+2D25", <<"U+10C5">>>>, <<"U+2D27", <<"U+10C7">>>>,
    <<"U+2D2D", <<"U+10CD">>>>, <<"U+A641", <<"U+A640">>>>, <<"U+A643", <<"U+A642">>>>,
    <<"U+A645", <<"U+A644">>>>, <<"U+A647", <<"U+A646">>>>, <<"U+A649", <<"U+A648">>>>,
    <<"U+A64B", <<"U+A64A">>>>, <<"U+A64D", <<"U+A64C">>>>, <<"U+A64F", <<"U+A64E">>>>,
    <<"U+A651", <<"U+A650">>>>, <<"U+A653", <<"U+A652">>>>, <<"U+A655", <<"U+A654">>>>,
    <<"U+A657", <<"U+A656">>>>, <<"U+A659", <<"U+A658">>>>, <<"U+A65B", <<"U+A65A">>>>,
    <<"U+A65D", <<"U+A65C">>>>, <<"U+A65F", <<"U+A65E">>>>, <<"U+A661", <<"U+A660">>>>,
    <<"U+A663", <<"U+A662">>>>, <<"U+A665", <<"U+A664">>>>, <<"U+A667", <<"U+A666">>>>,
    <<"U+A669", <<"U+A668">>>>, <<"U+A66B", <<"U+A66A">>>>, <<"U+A66D", <<"U+A66C">>>>,
    <<"U+A681", <<"U+A680">>>>, <<"U+A683", <<"U+A682">>>>, <<"U+A685", <<"U+A684">>>>,
    <<"U+A687", <<"U+A686">>>>, <<"U+A689", <<"U+A688">>>>, <<"U+A68B", <<"U+A68A">>>>,
    <<"U+A68D", <<"U+A68C">>>>, <<"U+A68F", <<"U+A68E">>>>, <<"U+A691", <<"U+A690">>>>,
    <<"U+A693", <<"U+A692">>>>, <<"U+A695", <<"U+A694">>>>, <<"U+A697", <<"U+A696">>>>,
    <<"U+A699", <<"U+A698">>>>, <<"U+A69B", <<"U+A69A">>>>, <<"U+A723", <<"U+A722">>>>,
    <<"U+A725", <<"U+A724">>>>, <<"U+A727", <<"U+A726">>>>, <<"U+A729", <<"U+A728">>>>,
    <<"U+A72B", <<"U+A72A">>>>, <<"U+A72D", <<"U+A72C">>>>, <<"U+A72F", <<"U+A72E">>>>,
    <<"U+A733", <<"U+A732">>>>, <<"U+A735", <<"U+A734">>>>, <<"U+A737", <<"U+A736">>>>,
    <<"U+A739", <<"U+A738">>>>, <<"U+A73B", <<"U+A73A">>>>, <<"U+A73D", <<"U+A73C">>>>,
    <<"U+A73F", <<"U+A73E">>>>, <<"U+A741", <<"U+A740">>>>, <<"U+A743", <<"U+A742">>>>,
    <<"U+A745", <<"U+A744">>>>, <<"U+A747", <<"U+A746">>>>, <<"U+A749", <<"U+A748">>>>,
    <<"U+A74B", <<"U+A74A">>>>, <<"U+A74D", <<"U+A74C">>>>, <<"U+A74F", <<"U+A74E">>>>,
    <<"U+A751", <<"U+A750">>>>, <<"U+A753", <<"U+A752">>>>, <<"U+A755", <<"U+A754">>>>,
    <<"U+A757", <<"U+A756">>>>, <<"U+A759", <<"U+A758">>>>, <<"U+A75B", <<"U+A75A">>>>,
    <<"U+A75D", <<"U+A75C">>>>, <<"U+A75F", <<"U+A75E">>>>, <<"U+A761", <<"U+A760">>>>,
    <<"U+A763", <<"U+A762">>>>, <<"U+A765", <<"U+A764">>>>, <<"U+A767", <<"U+A766">>>>,
    <<"U+A769", <<"U+A768">>>>, <<"U+A76B", <<"U+A76A">>>>, <<"U+A76D", <<"U+A76C">>>>,
    <<"U+A76F", <<"U+A76E">>>>, <<"U+A77A", <<"U+A779">>>>, <<"U+A77C", <<"U+A77B">>>>,
    <<"U+A77F", <<"U+A77E">>>>, <<"U+A781", <<"U+A780">>>>, <<"U+A783", <<"U+A782">>>>,
    <<"U+A785", <<"U+A784">>>>, <<"U+A787", <<"U+A786">>>>, <<"U+A78C", <<"U+A78B">>>>,
    <<"U+A791", <<"U+A790">>>>, <<"U+A793", <<"U+A792">>>>, <<"U+A794", <<"U+A7C4">>>>,
    <<"U+A797", <<"U+A796">>>>, <<"U+A799", <<"U+A798">>>>, <<"U+A79B", <<"U+A79A">>>>,
    <<"U+A79D", <<"U+A79C">>>>, <<"U+A79F", <<"U+A79E">>>>, <<"U+A7A1", <<"U+A7A0">>>>,
    <<"U+A7A3", <<"U+A7A2">>>>, <<"U+A7A5", <<"U+A7A4">>>>, <<"U+A7A7", <<"U+A7A6">>>>,
    <<"U+A7A9", <<"U+A7A8">>>>, <<"U+A7B5", <<"U+A7B4">>>>, <<"U+A7B7", <<"U+A7B6">>>>,
    <<"U+A7B9", <<"U+A7B8">>>>, <<"U+A7BB", <<"U+A7BA">>>>, <<"U+A7BD", <<"U+A7BC">>>>,
    <<"U+A7BF", <<"U+A7BE">>>>, <<"U+A7C1", <<"U+A7C0">>>>, <<"U+A7C3", <<"U+A7C2">>>>,
    <<"U+A7C8", <<"U+A7C7">>>>, <<"U+A7CA", <<"U+A7C9">>>>, <<"U+A7D1", <<"U+A7D0">>>>,
    <<"U+A7D7", <<"U+A7D6">>>>, <<"U+A7D9", <<"U+A7D8">>>>, <<"U+A7F6", <<"U+A7F5">>>>,
    <<"U+AB53", <<"U+A7B3">>>>, <<"U+AB70", <<"U+13A0">>>>, <<"U+AB71", <<"U+13A1">>>>,
    <<"U+AB72", <<"U+13A2">>>>, <<"U+AB73", <<"U+13A3">>>>, <<"U+AB74", <<"U+13A4">>>>,
    <<"U+AB75", <<"U+13A5">>>>, <<"U+AB76", <<"U+13A6">>>>, <<"U+AB77", <<"U+13A7">>>>,
    <<"U+AB78", <<"U+13A8">>>>, <<"U+AB79", <<"U+13A9">>>>, <<"U+AB7A", <<"U+13AA">>>>,
    <<"U+AB7B", <<"U+13AB">>>>, <<"U+AB7C", <<"U+13AC">>>>, <<"U+AB7D", <<"U+13AD">>>>,
    <<"U+AB7E", <<"U+13AE">>>>, <<"U+AB7F", <<"U+13AF">>>>, <<"U+AB80", <<"U+13B0">>>>,
    <<"U+AB81", <<"U+13B1">>>>, <<"U+AB82", <<"U+13B2">>>>, <<"U+AB83", <<"U+13B3">>>>,
    <<"U+AB84", <<"U+13B4">>>>, <<"U+AB85", <<"U+13B5">>>>, <<"U+AB86", <<"U+13B6">>>>,
    <<"U+AB87", <<"U+13B7">>>>, <<"U+AB88", <<"U+13B8">>>>, <<"U+AB89", <<"U+13B9">>>>,
    <<"U+AB8A", <<"U+13BA">>>>, <<"U+AB8B", <<"U+13BB">>>>, <<"U+AB8C", <<"U+13BC">>>>,
    <<"U+AB8D", <<"U+13BD">>>>, <<"U+AB8E", <<"U+13BE">>>>, <<"U+AB8F", <<"U+13BF">>>>,
    <<"U+AB90", <<"U+13C0">>>>, <<"U+AB91", <<"U+13C1">>>>, <<"U+AB92", <<"U+13C2">>>>,
    <<"U+AB93", <<"U+13C3">>>>, <<"U+AB94", <<"U+13C4">>>>, <<"U+AB95", <<"U+13C5">>>>,
    <<"U+AB96", <<"U+13C6">>>>, <<"U+AB97", <<"U+13C7">>>>, <<"U+AB98", <<"U+13C8">>>>,
    <<"U+AB99", <<"U+13C9">>>>, <<"U+AB9A", <<"U+13CA">>>>, <<"U+AB9B", <<"U+13CB">>>>,
    <<"U+AB9C", <<"U+13CC">>>>, <<"U+AB9D", <<"U+13CD">>>>, <<"U+AB9E", <<"U+13CE">>>>,
    <<"U+AB9F", <<"U+13CF">>>>, <<"U+ABA0", <<"U+13D0">>>>, <<"U+ABA1", <<"U+13D1">>>>,
    <<"U+ABA2", <<"U+13D2">>>>, <<"U+ABA3", <<"U+13D3">>>>, <<"U+ABA4", <<"U+13D4">>>>,
    <<"U+ABA5", <<"U+13D5">>>>, <<"U+ABA6", <<"U+13D6">>>>, <<"U+ABA7", <<"U+13D7">>>>,
    <<"U+ABA8", <<"U+13D8">>>>, <<"U+ABA9", <<"U+13D9">>>>, <<"U+ABAA", <<"U+13DA">>>>,
    <<"U+ABAB", <<"U+13DB">>>>, <<"U+ABAC", <<"U+13DC">>>>, <<"U+ABAD", <<"U+13DD">>>>,
    <<"U+ABAE", <<"U+13DE">>>>, <<"U+ABAF", <<"U+13DF">>>>, <<"U+ABB0", <<"U+13E0">>>>,
    <<"U+ABB1", <<"U+13E1">>>>, <<"U+ABB2", <<"U+13E2">>>>, <<"U+ABB3", <<"U+13E3">>>>,
    <<"U+ABB4", <<"U+13E4">>>>, <<"U+ABB5", <<"U+13E5">>>>, <<"U+ABB6", <<"U+13E6">>>>,
    <<"U+ABB7", <<"U+13E7">>>>, <<"U+ABB8", <<"U+13E8">>>>, <<"U+ABB9", <<"U+13E9">>>>,
    <<"U+ABBA", <<"U+13EA">>>>, <<"U+ABBB", <<"U+13EB">>>>, <<"U+ABBC", <<"U+13EC">>>>,
    <<"U+ABBD", <<"U+13ED">>>>, <<"U+ABBE", <<"U+13EE">>>>, <<"U+ABBF", <<"U+13EF">>>>,
    <<"U+FB00", <<"F", "F">>>>, <<"U+FB01", <<"F", "I">>>>, <<"U+FB02", <<"F", "L">>>>,
    <<"U+FB03", <<"F", "F", "I">>>>, <<"U+FB04", <<"F", "F", "L">>>>, <<"U+FB05", <<"S", "T">>>>,
    <<"U+FB06", <<"S", "T">>>>, <<"U+FB13", <<"U+0544", "U+0546">>>>,
    <<"U+FB14", <<"U+0544", "U+0535">>>>, <<"U+FB15", <<"U+0544", "U+053B">>>>,
    <<"U+FB16", <<"U+054E", "U+0546">>>>, <<"U+FB17", <<"U+0544", "U+053D">>>>,
    <<"U+FF41", <<"U+FF21">>>>, <<"U+FF42", <<"U+FF22">>>>, <<"U+FF43", <<"U+FF23">>>>,
    <<"U+FF44", <<"U+FF24">>>>, <<"U+FF45", <<"U+FF25">>>>, <<"U+FF46", <<"U+FF26">>>>,
    <<"U+FF47", <<"U+FF27">>>>, <<"U+FF48", <<"U+FF28">>>>, <<"U+FF49", <<"U+FF29">>>>,
    <<"U+FF4A", <<"U+FF2A">>>>, <<"U+FF4B", <<"U+FF2B">>>>, <<"U+FF4C", <<"U+FF2C">>>>,
    <<"U+FF4D", <<"U+FF2D">>>>, <<"U+FF4E", <<"U+FF2E">>>>, <<"U+FF4F", <<"U+FF2F">>>>,
    <<"U+FF50", <<"U+FF30">>>>, <<"U+FF51", <<"U+FF31">>>>, <<"U+FF52", <<"U+FF32">>>>,
    <<"U+FF53", <<"U+FF33">>>>, <<"U+FF54", <<"U+FF34">>>>, <<"U+FF55", <<"U+FF35">>>>,
    <<"U+FF56", <<"U+FF36">>>>, <<"U+FF57", <<"U+FF37">>>>, <<"U+FF58", <<"U+FF38">>>>,
    <<"U+FF59", <<"U+FF39">>>>, <<"U+FF5A", <<"U+FF3A">>>>, <<"U+10428", <<"U+10400">>>>,
    <<"U+10429", <<"U+10401">>>>, <<"U+1042A", <<"U+10402">>>>, <<"U+1042B", <<"U+10403">>>>,
    <<"U+1042C", <<"U+10404">>>>, <<"U+1042D", <<"U+10405">>>>, <<"U+1042E", <<"U+10406">>>>,
    <<"U+1042F", <<"U+10407">>>>, <<"U+10430", <<"U+10408">>>>, <<"U+10431", <<"U+10409">>>>,
    <<"U+10432", <<"U+1040A">>>>, <<"U+10433", <<"U+1040B">>>>, <<"U+10434", <<"U+1040C">>>>,
    <<"U+10435", <<"U+1040D">>>>, <<"U+10436", <<"U+1040E">>>>, <<"U+10437", <<"U+1040F">>>>,
    <<"U+10438", <<"U+10410">>>>, <<"U+10439", <<"U+10411">>>>, <<"U+1043A", <<"U+10412">>>>,
    <<"U+1043B", <<"U+10413">>>>, <<"U+1043C", <<"U+10414">>>>, <<"U+1043D", <<"U+10415">>>>,
    <<"U+1043E", <<"U+10416">>>>, <<"U+1043F", <<"U+10417">>>>, <<"U+10440", <<"U+10418">>>>,
    <<"U+10441", <<"U+10419">>>>, <<"U+10442", <<"U+1041A">>>>, <<"U+10443", <<"U+1041B">>>>,
    <<"U+10444", <<"U+1041C">>>>, <<"U+10445", <<"U+1041D">>>>, <<"U+10446", <<"U+1041E">>>>,
    <<"U+10447", <<"U+1041F">>>>, <<"U+10448", <<"U+10420">>>>, <<"U+10449", <<"U+10421">>>>,
    <<"U+1044A", <<"U+10422">>>>, <<"U+1044B", <<"U+10423">>>>, <<"U+1044C", <<"U+10424">>>>,
    <<"U+1044D", <<"U+10425">>>>, <<"U+1044E", <<"U+10426">>>>, <<"U+1044F", <<"U+10427">>>>,
    <<"U+104D8", <<"U+104B0">>>>, <<"U+104D9", <<"U+104B1">>>>, <<"U+104DA", <<"U+104B2">>>>,
    <<"U+104DB", <<"U+104B3">>>>, <<"U+104DC", <<"U+104B4">>>>, <<"U+104DD", <<"U+104B5">>>>,
    <<"U+104DE", <<"U+104B6">>>>, <<"U+104DF", <<"U+104B7">>>>, <<"U+104E0", <<"U+104B8">>>>,
    <<"U+104E1", <<"U+104B9">>>>, <<"U+104E2", <<"U+104BA">>>>, <<"U+104E3", <<"U+104BB">>>>,
    <<"U+104E4", <<"U+104BC">>>>, <<"U+104E5", <<"U+104BD">>>>, <<"U+104E6", <<"U+104BE">>>>,
    <<"U+104E7", <<"U+104BF">>>>, <<"U+104E8", <<"U+104C0">>>>, <<"U+104E9", <<"U+104C1">>>>,
    <<"U+104EA", <<"U+104C2">>>>, <<"U+104EB", <<"U+104C3">>>>, <<"U+104EC", <<"U+104C4">>>>,
    <<"U+104ED", <<"U+104C5">>>>, <<"U+104EE", <<"U+104C6">>>>, <<"U+104EF", <<"U+104C7">>>>,
    <<"U+104F0", <<"U+104C8">>>>, <<"U+104F1", <<"U+104C9">>>>, <<"U+104F2", <<"U+104CA">>>>,
    <<"U+104F3", <<"U+104CB">>>>, <<"U+104F4", <<"U+104CC">>>>, <<"U+104F5", <<"U+104CD">>>>,
    <<"U+104F6", <<"U+104CE">>>>, <<"U+104F7", <<"U+104CF">>>>, <<"U+104F8", <<"U+104D0">>>>,
    <<"U+104F9", <<"U+104D1">>>>, <<"U+104FA", <<"U+104D2">>>>, <<"U+104FB", <<"U+104D3">>>>,
    <<"U+10597", <<"U+10570">>>>, <<"U+10598", <<"U+10571">>>>, <<"U+10599", <<"U+10572">>>>,
    <<"U+1059A", <<"U+10573">>>>, <<"U+1059B", <<"U+10574">>>>, <<"U+1059C", <<"U+10575">>>>,
    <<"U+1059D", <<"U+10576">>>>, <<"U+1059E", <<"U+10577">>>>, <<"U+1059F", <<"U+10578">>>>,
    <<"U+105A0", <<"U+10579">>>>, <<"U+105A1", <<"U+1057A">>>>, <<"U+105A3", <<"U+1057C">>>>,
    <<"U+105A4", <<"U+1057D">>>>, <<"U+105A5", <<"U+1057E">>>>, <<"U+105A6", <<"U+1057F">>>>,
    <<"U+105A7", <<"U+10580">>>>, <<"U+105A8", <<"U+10581">>>>, <<"U+105A9", <<"U+10582">>>>,
    <<"U+105AA", <<"U+10583">>>>, <<"U+105AB", <<"U+10584">>>>, <<"U+105AC", <<"U+10585">>>>,
    <<"U+105AD", <<"U+10586">>>>, <<"U+105AE", <<"U+10587">>>>, <<"U+105AF", <<"U+10588">>>>,
    <<"U+105B0", <<"U+10589">>>>, <<"U+105B1", <<"U+1058A">>>>, <<"U+105B3", <<"U+1058C">>>>,
    <<"U+105B4", <<"U+1058D">>>>, <<"U+105B5", <<"U+1058E">>>>, <<"U+105B6", <<"U+1058F">>>>,
    <<"U+105B7", <<"U+10590">>>>, <<"U+105B8", <<"U+10591">>>>, <<"U+105B9", <<"U+10592">>>>,
    <<"U+105BB", <<"U+10594">>>>, <<"U+105BC", <<"U+10595">>>>, <<"U+10CC0", <<"U+10C80">>>>,
    <<"U+10CC1", <<"U+10C81">>>>, <<"U+10CC2", <<"U+10C82">>>>, <<"U+10CC3", <<"U+10C83">>>>,
    <<"U+10CC4", <<"U+10C84">>>>, <<"U+10CC5", <<"U+10C85">>>>, <<"U+10CC6", <<"U+10C86">>>>,
    <<"U+10CC7", <<"U+10C87">>>>, <<"U+10CC8", <<"U+10C88">>>>, <<"U+10CC9", <<"U+10C89">>>>,
    <<"U+10CCA", <<"U+10C8A">>>>, <<"U+10CCB", <<"U+10C8B">>>>, <<"U+10CCC", <<"U+10C8C">>>>,
    <<"U+10CCD", <<"U+10C8D">>>>, <<"U+10CCE", <<"U+10C8E">>>>, <<"U+10CCF", <<"U+10C8F">>>>,
    <<"U+10CD0", <<"U+10C90">>>>, <<"U+10CD1", <<"U+10C91">>>>, <<"U+10CD2", <<"U+10C92">>>>,
    <<"U+10CD3", <<"U+10C93">>>>, <<"U+10CD4", <<"U+10C94">>>>, <<"U+10CD5", <<"U+10C95">>>>,
    <<"U+10CD6", <<"U+10C96">>>>, <<"U+10CD7", <<"U+10C97">>>>, <<"U+10CD8", <<"U+10C98">>>>,
    <<"U+10CD9", <<"U+10C99">>>>, <<"U+10CDA", <<"U+10C9A">>>>, <<"U+10CDB", <<"U+10C9B">>>>,
    <<"U+10CDC", <<"U+10C9C">>>>, <<"U+10CDD", <<"U+10C9D">>>>, <<"U+10CDE", <<"U+10C9E">>>>,
    <<"U+10CDF", <<"U+10C9F">>>>, <<"U+10CE0", <<"U+10CA0">>>>, <<"U+10CE1", <<"U+10CA1">>>>,
    <<"U+10CE2", <<"U+10CA2">>>>, <<"U+10CE3", <<"U+10CA3">>>>, <<"U+10CE4", <<"U+10CA4">>>>,
    <<"U+10CE5", <<"U+10CA5">>>>, <<"U+10CE6", <<"U+10CA6">>>>, <<"U+10CE7", <<"U+10CA7">>>>,
    <<"U+10CE8", <<"U+10CA8">>>>, <<"U+10CE9", <<"U+10CA9">>>>, <<"U+10CEA", <<"U+10CAA">>>>,
    <<"U+10CEB", <<"U+10CAB">>>>, <<"U+10CEC", <<"U+10CAC">>>>, <<"U+10CED", <<"U+10CAD">>>>,
    <<"U+10CEE", <<"U+10CAE">>>>, <<"U+10CEF", <<"U+10CAF">>>>, <<"U+10CF0", <<"U+10CB0">>>>,
    <<"U+10CF1", <<"U+10CB1">>>>, <<"U+10CF2", <<"U+10CB2">>>>, <<"U+118C0", <<"U+118A0">>>>,
    <<"U+118C1", <<"U+118A1">>>>, <<"U+118C2", <<"U+118A2">>>>, <<"U+118C3", <<"U+118A3">>>>,
    <<"U+118C4", <<"U+118A4">>>>, <<"U+118C5", <<"U+118A5">>>>, <<"U+118C6", <<"U+118A6">>>>,
    <<"U+118C7", <<"U+118A7">>>>, <<"U+118C8", <<"U+118A8">>>>, <<"U+118C9", <<"U+118A9">>>>,
    <<"U+118CA", <<"U+118AA">>>>, <<"U+118CB", <<"U+118AB">>>>, <<"U+118CC", <<"U+118AC">>>>,
    <<"U+118CD", <<"U+118AD">>>>, <<"U+118CE", <<"U+118AE">>>>, <<"U+118CF", <<"U+118AF">>>>,
    <<"U+118D0", <<"U+118B0">>>>, <<"U+118D1", <<"U+118B1">>>>, <<"U+118D2", <<"U+118B2">>>>,
    <<"U+118D3", <<"U+118B3">>>>, <<"U+118D4", <<"U+118B4">>>>, <<"U+118D5", <<"U+118B5">>>>,
    <<"U+118D6", <<"U+118B6">>>>, <<"U+118D7", <<"U+118B7">>>>, <<"U+118D8", <<"U+118B8">>>>,
    <<"U+118D9", <<"U+118B9">>>>, <<"U+118DA", <<"U+118BA">>>>, <<"U+118DB", <<"U+118BB">>>>,
    <<"U+118DC", <<"U+118BC">>>>, <<"U+118DD", <<"U+118BD">>>>, <<"U+118DE", <<"U+118BE">>>>,
    <<"U+118DF", <<"U+118BF">>>>, <<"U+16E60", <<"U+16E40">>>>, <<"U+16E61", <<"U+16E41">>>>,
    <<"U+16E62", <<"U+16E42">>>>, <<"U+16E63", <<"U+16E43">>>>, <<"U+16E64", <<"U+16E44">>>>,
    <<"U+16E65", <<"U+16E45">>>>, <<"U+16E66", <<"U+16E46">>>>, <<"U+16E67", <<"U+16E47">>>>,
    <<"U+16E68", <<"U+16E48">>>>, <<"U+16E69", <<"U+16E49">>>>, <<"U+16E6A", <<"U+16E4A">>>>,
    <<"U+16E6B", <<"U+16E4B">>>>, <<"U+16E6C", <<"U+16E4C">>>>, <<"U+16E6D", <<"U+16E4D">>>>,
    <<"U+16E6E", <<"U+16E4E">>>>, <<"U+16E6F", <<"U+16E4F">>>>, <<"U+16E70", <<"U+16E50">>>>,
    <<"U+16E71", <<"U+16E51">>>>, <<"U+16E72", <<"U+16E52">>>>, <<"U+16E73", <<"U+16E53">>>>,
    <<"U+16E74", <<"U+16E54">>>>, <<"U+16E75", <<"U+16E55">>>>, <<"U+16E76", <<"U+16E56">>>>,
    <<"U+16E77", <<"U+16E57">>>>, <<"U+16E78", <<"U+16E58">>>>, <<"U+16E79", <<"U+16E59">>>>,
    <<"U+16E7A", <<"U+16E5A">>>>, <<"U+16E7B", <<"U+16E5B">>>>, <<"U+16E7C", <<"U+16E5C">>>>,
    <<"U+16E7D", <<"U+16E5D">>>>, <<"U+16E7E", <<"U+16E5E">>>>, <<"U+16E7F", <<"U+16E5F">>>>,
    <<"U+1E922", <<"U+1E900">>>>, <<"U+1E923", <<"U+1E901">>>>, <<"U+1E924", <<"U+1E902">>>>,
    <<"U+1E925", <<"U+1E903">>>>, <<"U+1E926", <<"U+1E904">>>>, <<"U+1E927", <<"U+1E905">>>>,
    <<"U+1E928", <<"U+1E906">>>>, <<"U+1E929", <<"U+1E907">>>>, <<"U+1E92A", <<"U+1E908">>>>,
    <<"U+1E92B", <<"U+1E909">>>>, <<"U+1E92C", <<"U+1E90A">>>>, <<"U+1E92D", <<"U+1E90B">>>>,
    <<"U+1E92E", <<"U+1E90C">>>>, <<"U+1E92F", <<"U+1E90D">>>>, <<"U+1E930", <<"U+1E90E">>>>,
    <<"U+1E931", <<"U+1E90F">>>>, <<"U+1E932", <<"U+1E910">>>>, <<"U+1E933", <<"U+1E911">>>>,
    <<"U+1E934", <<"U+1E912">>>>, <<"U+1E935", <<"U+1E913">>>>, <<"U+1E936", <<"U+1E914">>>>,
    <<"U+1E937", <<"U+1E915">>>>, <<"U+1E938", <<"U+1E916">>>>, <<"U+1E939", <<"U+1E917">>>>,
    <<"U+1E93A", <<"U+1E918">>>>, <<"U+1E93B", <<"U+1E919">>>>, <<"U+1E93C", <<"U+1E91A">>>>,
    <<"U+1E93D", <<"U+1E91B">>>>, <<"U+1E93E", <<"U+1E91C">>>>, <<"U+1E93F", <<"U+1E91D">>>>,
    <<"U+1E940", <<"U+1E91E">>>>, <<"U+1E941", <<"U+1E91F">>>>, <<"U+1E942", <<"U+1E920">>>>,
    <<"U+1E943", <<"U+1E921">>>> }

NonAsciiCased == {p[1] : p \in UpperPairs}

\* what str.upper() makes of one character
UpperChar(c) ==
    IF \E i \in DOMAIN Lowercase : Lowercase[i] = c
    THEN <<Uppercase[CHOOSE i \in DOMAIN Lowercase : Lowercase[i] = c]>>
    ELSE IF c \in NonAsciiCased
         THEN (CHOOSE p \in UpperPairs : p[1] = c)[2]
         ELSE <<c>>

\* str.upper()
RECURSIVE Upper(_)
Upper(s) == IF s = <<>> THEN <<>> ELSE UpperChar(Head(s)) \o Upper(Tail(s))

StartsWith(s, p) == Len(s) >= Len(p) /\ SubSeq(s, 1, Len(p)) = p

\* str.replace(old, new): every non-overlapping occurrence, left to right
RECURSIVE Replace(_, _, _)
Replace(s, old, new) ==
    IF s = <<>> THEN <<>>
    ELSE IF StartsWith(s, old)
         THEN new \o Replace(SubSeq(s, Len(old) + 1, Len(s)), old, new)
         ELSE <<Head(s)>> \o Replace(Tail(s), old, new)

(***************************************************************************)
(* Timestamps.  A source timestamp is the wall-clock reading the driver    *)
(* hands to pandas; aware tells whether it carries a UTC offset (a naive   *)
(* column has none) and off is that offset in minutes.                     *)
(***************************************************************************)
DatePrefix == <<"2", "0", "2", "4", "-", "0", "1", "-", "1", "5", "T">>

OffsetText(ts) ==
    IF ~ts.aware THEN <<>>
    ELSE LET a == IF ts.off < 0 THEN 0 - ts.off ELSE ts.off
         IN  <<IF ts.off < 0 THEN "-" ELSE "+">>
             \o TwoDigits(a \div 60) \o <<":">> \o TwoDigits(a % 60)

\* Timestamp.isoformat()
IsoFormat(ts) ==
    DatePrefix \o TwoDigits(ts.hour) \o <<":">> \o TwoDigits(ts.minute)
    \o <<":", "0", "0">> \o OffsetText(ts)

\* record['ts'].isoformat().replace('+00:00', 'Z')
NormalizeTs(ts) == Replace(IsoFormat(ts), <<"+", "0", "0", ":", "0", "0">>, <<"Z">>)

\* str(record['join_date']) of a datetime.date
DateStr(d) ==
    FourDigits(d.year) \o <<"-">> \o TwoDigits(d.month) \o <<"-">> \o TwoDigits(d.day)

(***************************************************************************)
(* Event type -> relationship kind.                                        *)
(***************************************************************************)
rel_type_map ==
    (<<"V", "I", "E", "W">> :> "VIEWED")
    @@ (<<"C", "L", "I", "C", "K">> :> "CLICKED")
    @@ (<<"A", "D", "D", "_", "T", "O", "_", "C", "A", "R", "T">> :> "ADDED_TO_CART")

DictGet(map, key, default) == IF key \in DOMAIN map THEN map[key] ELSE default

\* the lookup without the .upper() call
RelTypeCaseSensitive(event_type) == DictGet(rel_type_map, event_type, "INTERACTED_WITH")

RelType(event_type) == DictGet(rel_type_map, Upper(event_type), "INTERACTED_WITH")

(***************************************************************************)
(* chunk(data, size)                                                       *)
(***************************************************************************)
\* range(start, stop, step) for step > 0
RECURSIVE Range(_, _, _)
Range(start, stop, step) ==
    IF start >= stop THEN <<>> ELSE <<start>> \o Range(start + step, stop, step)

Min(a, b) == IF a < b THEN a ELSE b

\* data[i:j] with 0 <= i, a 0-based half-open slice cut at the end of data
Slice(data, i, j) == SubSeq(data, i + 1, Min(j, Len(data)))

\* a chunk() whose slices overlap by one row
ChunkOverlap(data, size) ==
    LET starts == Range(0, Len(data), size)
    IN  [k \in DOMAIN starts |-> Slice(data, starts[k], starts[k] + size + 1)]

\* a chunk() that stops before a final undersized slice
ChunkDropTail(data, size) ==
    LET starts == Range(0, Len(data) - size + 1, size)
    IN  [k \in DOMAIN starts |-> Slice(data, starts[k], starts[k] + size)]

\* a chunk() that ignores size and makes one group per row
ChunkPerRow(data, size) ==
    LET starts == Range(0, Len(data), 1)
    IN  [k \in DOMAIN starts |-> Slice(data, starts[k], starts[k] + 1)]

Chunk(data, size) ==
    LET starts == Range(0, Len(data), size)
    IN  [k \in DOMAIN starts |-> Slice(data, starts[k], starts[k] + size)]

(***************************************************************************)
(* The graph store: a bag of nodes and a bag of relationships.  A          *)
(* relationship names its end nodes by (label, id), which is how every     *)
(* statement of the pipeline finds them.                                   *)
(***************************************************************************)
Labels == {"Category", "Product", "Customer", "Order"}

RelTypes == {"IN_CATEGORY", "PLACED", "CONTAINS",
             "VIEWED", "CLICKED", "ADDED_TO_CART", "INTERACTED_WITH"}

EmptyGraph == [nodes |-> EmptyBag, rels |-> EmptyBag]

\* n copies of x
Copies(x, n) == IF n > 0 THEN [e \in {x} |-> n] ELSE EmptyBag

\* CREATE (x:Label {...})
CreateNode(g, node) == [g EXCEPT !.nodes = @ (+) Copies(node, 1)]

\* MATCH (x:Label {id: id}): the number of nodes it binds
MatchCount(g, label, id) ==
    LET hit == {n \in BagToSet(g.nodes) : n.label = label /\ n.id = id}
    IN  BagCardinality([n \in hit |-> g.nodes[n]])

\* CREATE (a)-[:TYPE {...}]->(b), once per pair of bound end nodes
CreateRel(g, rel, pairs) == [g EXCEPT !.rels = @ (+) Copies(rel, pairs)]

\* category_query, after UNWIND
CategoryRow(g, row) ==
    CreateNode(g, [label |-> "Category", id |-> row.id, name |-> row.name])

\* a product_query whose MATCH looks the category up by the product's id
ProductRowMatchById(g, row) ==
    LET g1 == CreateNode(g, [label |-> "Product", id |-> row.id,
                             name |-> row.name, price |-> row.price])
    IN  CreateRel(g1, [type |-> "IN_CATEGORY", from |-> row.id, to |-> row.id],
                  MatchCount(g1, "Category", row.id))

\* a product_query that matches the category before creating the product
ProductRowMatchFirst(g, row) ==
    IF MatchCount(g, "Category", row.category_id) = 0 THEN g
    ELSE LET g1 == CreateNode(g, [label |-> "Product", id |-> row.id,
                                  name |-> row.name, price |-> row.price])
         IN  CreateRel(g1, [type |-> "IN_CATEGORY", from |-> row.id,
                            to |-> row.category_id],
                       MatchCount(g1, "Category", row.category_id))

\* product_query, after UNWIND
ProductRow(g, row) ==
    LET g1 == CreateNode(g, [label |-> "Product", id |-> row.id,
                             name |-> row.name, price |-> row.price])
    IN  CreateRel(g1, [type |-> "IN_CATEGORY", from |-> row.id, to |-> row.category_id],
                  MatchCount(g1, "Category", row.category_id))

\* customer_query, after UNWIND
CustomerRow(g, row) ==
    CreateNode(g, [label |-> "Customer", id |-> row.id,
                   name |-> row.name, join_date |-> row.join_date])

\* order_query, after UNWIND
OrderRow(g, row) ==
    LET g1 == CreateNode(g, [label |-> "Order", id |-> row.id, ts |-> row.ts])
    IN  CreateRel(g1, [type |-> "PLACED", from |-> row.customer_id, to |-> row.id],
                  MatchCount(g1, "Customer", row.customer_id))

\* order_item_query, after UNWIND
OrderItemRow(g, row) ==
    CreateRel(g, [type |-> "CONTAINS", from |-> row.order_id, to |-> row.product_id,
                  quantity |-> row.quantity],
              MatchCount(g, "Order", row.order_id)
              * MatchCount(g, "Product", row.product_id))

\* the clauses that follow UNWIND $batch AS row in each batched query
RowClauses(query, g, row) ==
    CASE query = "Category" -> CategoryRow(g, row)
      [] query = "Product" -> ProductRow(g, row)
      [] query = "Customer" -> CustomerRow(g, row)
      [] query = "Order" -> OrderRow(g, row)
      [] query = "OrderItem" -> OrderItemRow(g, row)

\* UNWIND $batch AS row <clauses>: the clauses applied to each row in turn
Unwind(query, g, batch) ==
    LET after[i \in 0..Len(batch)] ==
            IF i = 0 THEN g ELSE RowClauses(query, after[i - 1], batch[i])
    IN  after[Len(batch)]

CategoryQuery(g, batch) == Unwind("Category", g, batch)

ProductQuery(g, batch) == Unwind("Product", g, batch)

CustomerQuery(g, batch) == Unwind("Customer", g, batch)

OrderQuery(g, batch) == Unwind("Order", g, batch)

\* an order_item_query that creates nothing for a batch with an unmatched row
OrderItemQueryAllOrNothing(g, batch) ==
    IF \A i \in DOMAIN batch :
           /\ MatchCount(g, "Order", batch[i].order_id) > 0
           /\ MatchCount(g, "Product", batch[i].product_id) > 0
    THEN Unwind("OrderItem", g, batch)
    ELSE g

OrderItemQuery(g, batch) == Unwind("OrderItem", g, batch)

\* an event_query that skips the fallback kind
EventQuerySkipUnknown(g, rel_type, p) ==
    IF rel_type = "INTERACTED_WITH" THEN g
    ELSE CreateRel(g, [type |-> rel_type, from |-> p.customer_id, to |-> p.product_id,
                       event_id |-> p.event_id, ts |-> p.ts],
                   MatchCount(g, "Customer", p.customer_id)
                   * MatchCount(g, "Product", p.product_id))

\* event_query, built for one rel_type and run with the parameters p
EventQuery(g, rel_type, p) ==
    CreateRel(g, [type |-> rel_type, from |-> p.customer_id, to |-> p.product_id,
                  event_id |-> p.event_id, ts |-> p.ts],
              MatchCount(g, "Customer", p.customer_id)
              * MatchCount(g, "Product", p.product_id))

\* a reset that removes the relationships only
\* the reset leaves the graph as it found it
ResetSkipped(g) == g

ResetRelsOnly(g) == [g EXCEPT !.rels = EmptyBag]

\* MATCH (n) DETACH DELETE n
DetachDeleteAll(g) == EmptyGraph

\* The statements of the bootstrap script (queries.cypher), in file order:
\* one uniqueness constraint on id per node label, each created if it does
\* not exist yet.
BootstrapLabels == <<"Category", "Product", "Customer", "Order">>

AllConstraints == {BootstrapLabels[i] : i \in DOMAIN BootstrapLabels}

\* some id occurs twice under the label
DuplicateIds(g, label) ==
    \E n \in BagToSet(g.nodes) : n.label = label /\ MatchCount(g, label, n.id) > 1

\* g breaks one of the uniqueness constraints held
ViolatesUnique(g, held) == \E label \in held : DuplicateIds(g, label)

\* The records the pipeline sends: batch.to_dict('records') and the
\* per-record conversions of the customers and orders loops.
CustomerRecords(batch) ==
    [i \in DOMAIN batch |-> [batch[i] EXCEPT !.join_date = DateStr(@)]]

OrderRecords(batch) ==
    [i \in DOMAIN batch |-> [batch[i] EXCEPT !.ts = NormalizeTs(@)]]

EventParams(record) ==
    [customer_id |-> record.customer_id, product_id |-> record.product_id,
     event_id |-> record.id, ts |-> NormalizeTs(record.ts)]

\* the counts VERIFY reads
NodeCount(g, label) ==
    LET hit == {n \in BagToSet(g.nodes) : n.label = label}
    IN  BagCardinality([n \in hit |-> g.nodes[n]])

VerifyCounts(g) ==
    [customers |-> NodeCount(g, "Customer"), products |-> NodeCount(g, "Product"),
     orders |-> NodeCount(g, "Order"), categories |-> NodeCount(g, "Category"),
     relationships |-> BagCardinality(g.rels)]

(***************************************************************************)
(* The relational source: the rows each SELECT * returns, in the order     *)
(* returned.  Ids are unique per table; foreign keys may dangle.           *)
(***************************************************************************)
Tables == {"categories", "products", "customers", "orders", "order_items", "events"}

Ts(h, m, aware, off) == [hour |-> h, minute |-> m, aware |-> aware, off |-> off]

Cat(i) == [id |-> i, name |-> <<"c", Digits[i + 1]>>]

Prod(i, c) == [id |-> i, name |-> <<"p", Digits[i + 1]>>, price |-> 10 * i, category_id |-> c]

Cust(i) == [id |-> i, name |-> <<"u", Digits[i + 1]>>,
            join_date |-> [year |-> IF i = 2 THEN 1999 ELSE 2023, month |-> i, day |-> 10 + i]]

Ord(i, c, ts) == [id |-> i, customer_id |-> c, ts |-> ts]

Item(o, p, q) == [order_id |-> o, product_id |-> p, quantity |-> q]

Ev(i, c, p, type, ts) == [id |-> i, customer_id |-> c, product_id |-> p,
                          event_type |-> type, ts |-> ts]

CategoryTables == { <<>>, <<Cat(1), Cat(2)>>, <<Cat(1), Cat(2), Cat(3)>> }

ProductTables == { <<>>, <<Prod(1, 1), Prod(2, 1), Prod(3, 3)>> }

CustomerTables == { <<Cust(1)>>, <<Cust(1), Cust(2), Cust(3)>> }

OrderTables ==
    { <<>>,
      <<Ord(1, 1, Ts(10, 0, TRUE, 0)), Ord(2, 1, Ts(11, 30, TRUE, 0))>>,
      <<Ord(1, 1, Ts(10, 0, TRUE, 0)), Ord(2, 2, Ts(10, 0, FALSE, 0)),
        Ord(3, 3, Ts(12, 0, TRUE, 120))>> }

OrderItemTables == { <<>>, <<Item(1, 1, 2), Item(3, 3, 5), Item(2, 2, 1)>> }

EventTables ==
    { <<>>,
      <<Ev(1, 1, 1, <<"v", "i", "e", "w">>, Ts(9, 15, TRUE, 0)),
        Ev(2, 1, 2, <<"V", "I", "E", "W">>, Ts(9, 15, FALSE, 0)),
        Ev(3, 2, 3, <<"P", "U", "R", "C", "H", "A", "S", "E">>, Ts(8, 0, TRUE, -300))>>,
      <<Ev(1, 1, 1, <<"V", "i", "e", "w">>, Ts(9, 15, TRUE, 0)),
        Ev(2, 3, 1, <<"c", "l", "i", "c", "k">>, Ts(9, 20, TRUE, 0)),
        Ev(3, 1, 2, <<"A", "d", "d", "_", "T", "o", "_", "C", "a", "r", "t">>,
           Ts(9, 25, TRUE, 0)),
        Ev(4, 2, 2, <<"v", "U+0131", "e", "w">>, Ts(9, 30, TRUE, 0))>> }

\* 2 categories, 3 products (2 in the first category, 1 in the second),
\* 2 customers, one order per customer with one item each, one view event
ScenarioSource ==
    [categories |-> <<Cat(1), Cat(2)>>,
     products |-> <<Prod(1, 1), Prod(2, 1), Prod(3, 2)>>,
     customers |-> <<Cust(1), Cust(2)>>,
     orders |-> <<Ord(1, 1, Ts(10, 0, TRUE, 0)), Ord(2, 2, Ts(11, 0, TRUE, 0))>>,
     order_items |-> <<Item(1, 1, 1), Item(2, 3, 1)>>,
     events |-> <<Ev(1, 1, 2, <<"v", "i", "e", "w">>, Ts(9, 0, TRUE, 0))>>]

Sources ==
    { [categories |-> c, products |-> p, customers |-> u, orders |-> o,
       order_items |-> i, events |-> e] :
        c \in CategoryTables, p \in ProductTables, u \in CustomerTables,
        o \in OrderTables, i \in OrderItemTables, e \in EventTables }
    \cup {ScenarioSource}

\* Graph contents a run can find: a fresh store, the remains of an earlier
\* load made under the constraints, and content written without them that
\* holds one id twice.
StaleGraph ==
    [nodes |-> SetToBag({[label |-> "Category", id |-> 1, name |-> <<"o", "l", "d">>],
                         [label |-> "Customer", id |-> 1, name |-> <<"o", "l", "d">>,
                          join_date |-> <<"2", "0", "2", "0", "-", "0", "1", "-", "0", "1">>],
                         [label |-> "Product", id |-> 9, name |-> <<"o", "l", "d">>,
                          price |-> 1]}),
     rels |-> SetToBag({[type |-> "IN_CATEGORY", from |-> 9, to |-> 1]})]

DuplicateGraph ==
    [nodes |-> Copies([label |-> "Customer", id |-> 1, name |-> <<"o", "l", "d">>,
                       join_date |-> <<"2", "0", "2", "0", "-", "0", "1", "-", "0", "1">>], 2),
     rels |-> EmptyBag]

InitialStores ==
    { [graph |-> EmptyGraph, constraints |-> {}],
      [graph |-> StaleGraph, constraints |-> AllConstraints],
      [graph |-> DuplicateGraph, constraints |-> {}] }

(***************************************************************************)
(* etl()                                                                   *)
(***************************************************************************)
VARIABLES
    pc,          \* the statement of etl() about to run, or "done" / "failed"
    run,         \* which run of etl() against this graph
    attempt,     \* i of the wait_for_* loop in progress
    pg_conn,     \* "none", "open" or "closed"
    driver,      \* "none", "open" or "closed"
    graph,       \* the content of the graph store
    constraints, \* the labels whose uniqueness constraint the store holds
    src,         \* the relational source
    df,          \* the extracted tables (df_categories, ...)
    k,           \* index of the statement, chunk or count query the current loop is at
    j,           \* index of the record within the current events chunk
    cause,       \* why the run is failing: "none", "env" or "constraint"
    written,     \* write statements completed in this run, per load step
    ended,       \* outcome of each run that has ended
    report,      \* the counts printed by the last VERIFY
    failed_at,   \* the statement at which this run first raised, or "none"
    slept,       \* seconds slept so far by the wait_for_* loop in progress
    data,        \* chunk() called on its own: the rows passed
    size,        \* chunk() called on its own: the size passed
    groups,      \* chunk() called on its own: the list returned
    returned,    \* chunk() called on its own: whether it has returned
    content,     \* run_cypher_file() called on its own: the text of the file
    statements,  \* run_cypher_file() called on its own: the list built from it
    pos,         \* run_cypher_file() called on its own: index in statements
    executed,    \* run_cypher_file() called on its own: the texts sent to run_cypher
    fpc,         \* run_cypher_file() called on its own: where it is
    other,       \* two runs at once: the local state of the run not executing now
    overlapped,  \* two runs at once: one has run while the other was under way
    fn,          \* a wait_for_* called on its own: "postgres" or "neo4j"
    retries,     \* a wait_for_* called on its own: the max_retries passed
    delay,       \* a wait_for_* called on its own: the delay passed
    idx,         \* a wait_for_* called on its own: i of its loop
    wpc,         \* a wait_for_* called on its own: where it is
    probes,      \* a wait_for_* called on its own: connections and drivers open
    tried,       \* a wait_for_* called on its own: connection attempts made
    connected,   \* a wait_for_* called on its own: whether an attempt succeeded
    waited       \* a wait_for_* called on its own: seconds slept

etlVars == <<pc, run, attempt, pg_conn, driver, graph, constraints, src, df, k, j,
             cause, written, ended, report, failed_at, slept>>

chunkVars == <<data, size, groups, returned>>

fileVars == <<content, statements, pos, executed, fpc>>

peerVars == <<other, overlapped>>

waitVars == <<fn, retries, delay, idx, wpc, probes, tried, connected, waited>>

pureVars == <<chunkVars, fileVars, peerVars, waitVars>>

vars == <<etlVars, chunkVars, fileVars, peerVars, waitVars>>

\* no wait_for_* is being followed on its own
NoWait ==
    /\ fn = "none"
    /\ retries = 0
    /\ delay = 0
    /\ idx = 0
    /\ wpc = "idle"
    /\ probes = 0
    /\ tried = 0
    /\ connected = FALSE
    /\ waited = 0

\* there is no second run
NoPeer ==
    /\ other = [pc |-> "absent"]
    /\ overlapped = FALSE

\* run_cypher_file() is not being followed on its own
NoFile ==
    /\ content = <<>>
    /\ statements = <<>>
    /\ pos = 1
    /\ executed = <<>>
    /\ fpc = "idle"

LoadSteps == <<"load_categories", "load_products", "load_customers", "load_orders",
               "load_order_items", "load_events">>

\* the body of the try block with the load steps in another order
TryStepsProductsFirst ==
    <<"schema", "reset",
      "extract_categories", "extract_products", "extract_customers",
      "extract_orders", "extract_order_items", "extract_events",
      "load_products", "load_categories", "load_customers", "load_orders",
      "load_order_items", "load_events", "verify">>

\* the body of the try block with the reset ahead of the schema setup
TryStepsResetFirst ==
    <<"reset", "schema",
      "extract_categories", "extract_products", "extract_customers",
      "extract_orders", "extract_order_items", "extract_events",
      "load_categories", "load_products", "load_customers", "load_orders",
      "load_order_items", "load_events", "verify">>

\* the body of the try block with each table extracted just before its load
TryStepsExtractPerTable ==
    <<"schema", "reset",
      "extract_categories", "load_categories", "extract_products", "load_products",
      "extract_customers", "load_customers", "extract_orders", "load_orders",
      "extract_order_items", "load_order_items", "extract_events", "load_events",
      "verify">>

\* the body of the try block, in program order
TrySteps ==
    <<"schema", "reset",
      "extract_categories", "extract_products", "extract_customers",
      "extract_orders", "extract_order_items", "extract_events",
      "load_categories", "load_products", "load_customers", "load_orders",
      "load_order_items", "load_events", "verify">>

After(step) ==
    LET i == CHOOSE n \in DOMAIN TrySteps : TrySteps[n] = step
    IN  IF i = Len(TrySteps) THEN "finally_pg" ELSE TrySteps[i + 1]

NoTables == [t \in Tables |-> <<>>]

NoWrites == [s \in {LoadSteps[i] : i \in DOMAIN LoadSteps} |-> 0]

NoReport == [customers |-> 0, products |-> 0, orders |-> 0, categories |-> 0,
             relationships |-> 0]

Init ==
    /\ pc = "wait_pg"
    /\ run = 1
    /\ attempt = 0
    /\ pg_conn = "none"
    /\ driver = "none"
    /\ \E st \in InitialStores : graph = st.graph /\ constraints = st.constraints
    /\ src \in Sources
    /\ df = NoTables
    /\ k = 1
    /\ j = 1
    /\ cause = "none"
    /\ written = NoWrites
    /\ ended = <<>>
    /\ report = NoReport
    /\ failed_at = "none"
    /\ slept = 0
    /\ data = <<>>
    /\ size = ChunkSize
    /\ groups = <<>>
    /\ returned = FALSE
    /\ NoFile
    /\ NoPeer
    /\ NoWait

\* etl() returns or propagates an exception
End(outcome, why) ==
    /\ pc' = outcome
    /\ cause' = why
    /\ failed_at' = IF cause = "none" /\ why # "none" THEN pc ELSE failed_at
    /\ ended' = Append(ended, [outcome |-> outcome, cause |-> why, graph |-> graph'])

\* an exception that is recorded and swallowed: the statement is tried again
RaiseAndRetry(why) ==
    /\ pc' = pc
    /\ cause' = why
    /\ failed_at' = pc
    /\ ended' = ended

\* an exception inside the try block: control goes to the finally clause
Raise(why) ==
    /\ pc' = "finally_pg"
    /\ cause' = why
    /\ failed_at' = pc
    /\ ended' = ended

\* delay of wait_for_postgres / wait_for_neo4j, in seconds
Delay == 2

\* a retry test that never gives up inside the loop
MoreAttemptsOffByOne(i, max_retries) == i < max_retries

\* if i < max_retries - 1: sleep and try again; else: raise
MoreAttempts(i, max_retries) == i < max_retries - 1

\* What one turn of a wait loop meets: the probe succeeds, it raises the
\* psycopg2.OperationalError of an unreachable store, or it raises another
\* exception. wait_for_postgres catches the second only, so that the third
\* leaves the function and etl() at once; wait_for_neo4j catches both.
ProbeOutcomes == {"ok", "operational", "other"}

\* wait_for_postgres()
WaitForPostgres ==
    /\ pc = "wait_pg"
    /\ UNCHANGED pureVars
    /\ UNCHANGED <<run, pg_conn, driver, graph, constraints, src, df, k, j, written, report>>
    /\ IF attempt < MaxRetries
       THEN \E outcome \in ProbeOutcomes :
               IF outcome = "ok"
               THEN /\ pc' = "wait_neo" /\ attempt' = 0 /\ slept' = 0
                    /\ UNCHANGED <<cause, ended, failed_at>>
               ELSE IF outcome = "operational" /\ MoreAttempts(attempt, MaxRetries)
                    THEN /\ attempt' = attempt + 1 /\ slept' = slept + Delay
                         /\ UNCHANGED <<pc, cause, ended, failed_at>>
                    ELSE /\ attempt' = attempt /\ slept' = slept
                         /\ End("failed", "env")
       ELSE /\ pc' = "wait_neo" /\ attempt' = 0 /\ slept' = 0
            /\ UNCHANGED <<cause, ended, failed_at>>

\* wait_for_neo4j()
WaitForNeo4j ==
    /\ pc = "wait_neo"
    /\ UNCHANGED pureVars
    /\ UNCHANGED <<run, pg_conn, driver, graph, constraints, src, df, k, j, written, report>>
    /\ IF attempt < MaxRetries
       THEN \E outcome \in ProbeOutcomes :
               IF outcome = "ok"
               THEN /\ pc' = "connect_pg" /\ attempt' = 0 /\ slept' = 0
                    /\ UNCHANGED <<cause, ended, failed_at>>
               ELSE IF MoreAttempts(attempt, MaxRetries)
                    THEN /\ attempt' = attempt + 1 /\ slept' = slept + Delay
                         /\ UNCHANGED <<pc, cause, ended, failed_at>>
                    ELSE /\ attempt' = attempt /\ slept' = slept
                         /\ End("failed", "env")
       ELSE /\ pc' = "connect_pg" /\ attempt' = 0 /\ slept' = 0
            /\ UNCHANGED <<cause, ended, failed_at>>

\* pg_conn = psycopg2.connect(...)
ConnectPostgres ==
    /\ pc = "connect_pg"
    /\ UNCHANGED pureVars
    /\ UNCHANGED <<run, slept, attempt, driver, graph, constraints, src, df, k, j, written, report>>
    /\ \E ok \in BOOLEAN :
          IF ok
          THEN pg_conn' = "open" /\ pc' = "connect_neo" /\ UNCHANGED <<cause, ended, failed_at>>
          ELSE pg_conn' = pg_conn /\ End("failed", "env")

\* driver = GraphDatabase.driver(...), still outside the try block
ConnectNeo4j ==
    /\ pc = "connect_neo"
    /\ UNCHANGED pureVars
    /\ UNCHANGED <<run, slept, attempt, pg_conn, graph, constraints, src, df, k, j, written, report>>
    /\ \E ok \in BOOLEAN :
          IF ok
          THEN driver' = "open" /\ pc' = TrySteps[1] /\ UNCHANGED <<cause, ended, failed_at>>
          ELSE driver' = driver /\ End("failed", "env")

\* Whether the bootstrap script fails on a store: creating a uniqueness
\* constraint is refused while existing nodes share an id.
BootstrapRefused(g, held, label) == label \notin held /\ DuplicateIds(g, label)

\* run_cypher(driver, query, parameters): one auto-commit statement.  It
\* either takes effect whole or raises and leaves the graph as it was:
\* "env" when the store cannot be reached, "constraint" when the statement
\* would break a uniqueness constraint.
CypherOutcome(ok, held, after) ==
    IF ~ok THEN "env"
    ELSE IF ViolatesUnique(after, held) THEN "constraint"
    ELSE "none"

\* run_cypher_file(driver, queries_path): for statement in statements:
\* run_cypher(driver, statement). One firing sends statement k, each in its
\* own session and transaction, or leaves the loop after the last.
SchemaSetup ==
    /\ pc = "schema"
    /\ UNCHANGED pureVars
    /\ UNCHANGED <<run, slept, attempt, pg_conn, driver, graph, src, df, j, written, report>>
    /\ IF k > Len(BootstrapLabels)
       THEN /\ pc' = After("schema")
            /\ k' = 1
            /\ UNCHANGED <<constraints, cause, ended, failed_at>>
       ELSE \E ok \in BOOLEAN :
               IF ~ok
               THEN Raise("env") /\ UNCHANGED <<constraints, k>>
               ELSE IF BootstrapRefused(graph, constraints, BootstrapLabels[k])
                    THEN Raise("constraint") /\ UNCHANGED <<constraints, k>>
                    ELSE /\ constraints' = constraints \cup {BootstrapLabels[k]}
                         /\ k' = k + 1
                         /\ UNCHANGED <<pc, cause, ended, failed_at>>

\* run_cypher(driver, "MATCH (n) DETACH DELETE n")
Reset ==
    /\ pc = "reset"
    /\ UNCHANGED pureVars
    /\ UNCHANGED <<run, slept, attempt, pg_conn, driver, constraints, src, df, k, j, written, report>>
    /\ \E ok \in BOOLEAN :
          IF ok
          THEN graph' = DetachDeleteAll(graph) /\ pc' = After("reset")
               /\ UNCHANGED <<cause, ended, failed_at>>
          ELSE graph' = graph /\ Raise("env")

\* df_<table> = pd.read_sql("SELECT * FROM <table>", pg_conn)
Extract(step, table) ==
    /\ pc = step
    /\ UNCHANGED pureVars
    /\ UNCHANGED <<run, slept, attempt, pg_conn, driver, graph, constraints, src, k, j, written, report>>
    /\ \E ok \in BOOLEAN :
          IF ok
          THEN df' = [df EXCEPT ![table] = src[table]] /\ pc' = After(step)
               /\ UNCHANGED <<cause, ended, failed_at>>
          ELSE df' = df /\ Raise("env")

ExtractCategories == Extract("extract_categories", "categories")

ExtractProducts == Extract("extract_products", "products")

ExtractCustomers == Extract("extract_customers", "customers")

ExtractOrders == Extract("extract_orders", "orders")

ExtractOrderItems == Extract("extract_order_items", "order_items")

ExtractEvents == Extract("extract_events", "events")

\* batch.to_dict('records'): the rows of the chunk, one record each
ToRecords(batch) == batch

\* the records built from a chunk and the query run on them, per load loop
BatchWrite(step, g, batch) ==
    CASE step = "load_categories" -> CategoryQuery(g, ToRecords(batch))
      [] step = "load_products" -> ProductQuery(g, ToRecords(batch))
      [] step = "load_customers" -> CustomerQuery(g, CustomerRecords(batch))
      [] step = "load_orders" -> OrderQuery(g, OrderRecords(batch))
      [] step = "load_order_items" -> OrderItemQuery(g, ToRecords(batch))

\* for batch in chunk(df_<table>): records = ...; run_cypher(driver, query, {"batch": records})
\* One firing runs the loop body for chunk k, or leaves the loop after the last chunk.
LoadChunks(step, table) ==
    /\ pc = step
    /\ UNCHANGED pureVars
    /\ UNCHANGED <<run, slept, attempt, pg_conn, driver, constraints, src, df, j, report>>
    /\ LET chunks == Chunk(df[table], ChunkSize)
       IN  IF k > Len(chunks)
           THEN /\ pc' = After(step)
                /\ k' = 1
                /\ UNCHANGED <<graph, cause, written, ended, failed_at>>
           ELSE \E ok \in BOOLEAN :
                   LET after == BatchWrite(step, graph, chunks[k])
                       why == CypherOutcome(ok, constraints, after)
                   IN  IF why = "none"
                       THEN /\ graph' = after
                            /\ k' = k + 1
                            /\ written' = [written EXCEPT ![step] = @ + 1]
                            /\ UNCHANGED <<pc, cause, ended, failed_at>>
                       ELSE /\ Raise(why)
                            /\ UNCHANGED <<graph, k, written>>

LoadCategories == LoadChunks("load_categories", "categories")

LoadProducts == LoadChunks("load_products", "products")

LoadCustomers == LoadChunks("load_customers", "customers")

LoadOrders == LoadChunks("load_orders", "orders")

LoadOrderItems == LoadChunks("load_order_items", "order_items")

\* for batch in chunk(df_events): for record in records: ... run_cypher(driver, event_query, {...})
\* One firing runs the inner loop body for record j of chunk k.
LoadEvents ==
    /\ pc = "load_events"
    /\ UNCHANGED pureVars
    /\ UNCHANGED <<run, slept, attempt, pg_conn, driver, constraints, src, df, report>>
    /\ LET chunks == Chunk(df["events"], ChunkSize)
       IN  IF k > Len(chunks)
           THEN /\ pc' = After("load_events")
                /\ k' = 1
                /\ j' = 1
                /\ UNCHANGED <<graph, cause, written, ended, failed_at>>
           ELSE \E ok \in BOOLEAN :
                   LET records == ToRecords(chunks[k])
                       record == records[j]
                       rel_type == RelType(record.event_type)
                       after == EventQuery(graph, rel_type, EventParams(record))
                       why == CypherOutcome(ok, constraints, after)
                   IN  IF why = "none"
                       THEN /\ graph' = after
                            /\ IF j < Len(records)
                               THEN j' = j + 1 /\ k' = k
                               ELSE j' = 1 /\ k' = k + 1
                            /\ written' = [written EXCEPT !["load_events"] = @ + 1]
                            /\ UNCHANGED <<pc, cause, ended, failed_at>>
                       ELSE /\ Raise(why)
                            /\ UNCHANGED <<graph, k, j, written>>

\* the five count queries, in the order the code sends them
CountQueries == <<"customers", "products", "orders", "categories", "relationships">>

\* with driver.session() as session: result = session.run(<count query>);
\* print(...). One firing sends count query k and prints its result, or
\* leaves the with block after the last.
Verify ==
    /\ pc = "verify"
    /\ UNCHANGED pureVars
    /\ UNCHANGED <<run, slept, attempt, pg_conn, driver, graph, constraints, src, df, j, written>>
    /\ IF k > Len(CountQueries)
       THEN /\ pc' = After("verify")
            /\ k' = 1
            /\ UNCHANGED <<report, cause, ended, failed_at>>
       ELSE \E ok \in BOOLEAN :
               IF ok
               THEN /\ report' = [report EXCEPT ![CountQueries[k]] = VerifyCounts(graph)[CountQueries[k]]]
                    /\ k' = k + 1
                    /\ UNCHANGED <<pc, cause, ended, failed_at>>
               ELSE report' = report /\ k' = k /\ Raise("env")

\* finally: pg_conn.close()
ClosePostgres ==
    /\ pc = "finally_pg"
    /\ UNCHANGED pureVars
    /\ UNCHANGED <<run, slept, attempt, driver, graph, constraints, src, df, k, j, written, report>>
    /\ \E ok \in BOOLEAN :
          IF ok
          THEN pg_conn' = "closed" /\ pc' = "finally_driver" /\ UNCHANGED <<cause, ended, failed_at>>
          ELSE /\ pg_conn' \in {"open", "closed"}
               /\ End("failed", "env")

\* finally: driver.close(), then etl() returns or re-raises
CloseDriver ==
    /\ pc = "finally_driver"
    /\ UNCHANGED pureVars
    /\ UNCHANGED <<run, slept, attempt, pg_conn, graph, constraints, src, df, k, j, written, report>>
    /\ \E ok \in BOOLEAN :
          IF ok
          THEN /\ driver' = "closed"
               /\ IF cause = "none" THEN End("done", "none") ELSE End("failed", cause)
          ELSE /\ driver' \in {"open", "closed"}
               /\ End("failed", "env")

\* etl() is started again, in a new process, against the same stores
Restart ==
    /\ pc \in {"done", "failed"}
    /\ UNCHANGED pureVars
    /\ run < MaxRuns
    /\ run' = run + 1
    /\ pc' = "wait_pg"
    /\ attempt' = 0
    /\ pg_conn' = "none"
    /\ driver' = "none"
    /\ df' = NoTables
    /\ k' = 1
    /\ j' = 1
    /\ cause' = "none"
    /\ written' = NoWrites
    /\ report' = NoReport
    /\ failed_at' = "none"
    /\ slept' = 0
    /\ UNCHANGED <<graph, constraints, src, ended>>

Next ==
    \/ WaitForPostgres
    \/ WaitForNeo4j
    \/ ConnectPostgres
    \/ ConnectNeo4j
    \/ SchemaSetup
    \/ Reset
    \/ ExtractCategories
    \/ ExtractProducts
    \/ ExtractCustomers
    \/ ExtractOrders
    \/ ExtractOrderItems
    \/ ExtractEvents
    \/ LoadCategories
    \/ LoadProducts
    \/ LoadCustomers
    \/ LoadOrders
    \/ LoadOrderItems
    \/ LoadEvents
    \/ Verify
    \/ ClosePostgres
    \/ CloseDriver
    \/ Restart

Spec == Init /\ [][Next]_vars

(***************************************************************************)
(* chunk() called on its own, on every short input and every small size.   *)
(***************************************************************************)
RowValues == {"a", "b"}

RECURSIVE SeqsUpTo(_, _)
SeqsUpTo(S, n) ==
    IF n = 0 THEN {<<>>}
    ELSE LET shorter == SeqsUpTo(S, n - 1)
         IN  shorter \cup {Append(q, x) : q \in {t \in shorter : Len(t) = n - 1}, x \in S}

\* etl() is not running
EtlIdle ==
    /\ pc = "idle"
    /\ run = 1
    /\ attempt = 0
    /\ pg_conn = "none"
    /\ driver = "none"
    /\ graph = EmptyGraph
    /\ constraints = {}
    /\ src = NoTables
    /\ df = NoTables
    /\ k = 1
    /\ j = 1
    /\ cause = "none"
    /\ written = NoWrites
    /\ ended = <<>>
    /\ report = NoReport
    /\ failed_at = "none"
    /\ slept = 0

ChunkInit ==
    /\ data \in SeqsUpTo(RowValues, MaxLen)
    /\ size \in 1..MaxSize
    /\ groups = <<>>
    /\ returned = FALSE
    /\ NoFile
    /\ NoPeer
    /\ NoWait
    /\ EtlIdle

ChunkCall ==
    /\ ~returned
    /\ groups' = Chunk(data, size)
    /\ returned' = TRUE
    /\ UNCHANGED <<data, size>>
    /\ UNCHANGED etlVars
    /\ UNCHANGED <<fileVars, peerVars, waitVars>>

ChunkNext == ChunkCall

SpecChunk == ChunkInit /\ [][ChunkNext]_vars

(***************************************************************************)
(* wait_for_postgres() and wait_for_neo4j() followed on their own,         *)
(* statement by statement, for every max_retries and delay in a small      *)
(* range.  probes counts the connections and drivers the function has      *)
(* opened and not closed.                                                  *)
(***************************************************************************)
WaitInit ==
    /\ fn \in {"postgres", "neo4j"}
    /\ retries \in (-BelowZeroArg)..MaxRetriesArg
    /\ delay \in 1..MaxDelayArg
    /\ idx = 0
    /\ wpc = "for"
    /\ probes = 0
    /\ tried = 0
    /\ connected = FALSE
    /\ waited = 0
    /\ NoFile
    /\ NoPeer
    /\ EtlIdle
    /\ data = <<>>
    /\ size = ChunkSize
    /\ groups = <<>>
    /\ returned = FALSE

WaitFrame == UNCHANGED <<etlVars, chunkVars, fileVars, peerVars>>

\* for i in range(max_retries): the next turn, or the end of the function
\* once the range is used up
ForRange ==
    /\ wpc = "for"
    /\ wpc' = IF idx < retries THEN "connect" ELSE "returned"
    /\ UNCHANGED <<fn, retries, delay, idx, probes, tried, connected, waited>>
    /\ WaitFrame

\* conn = psycopg2.connect(...)
ProbePostgres ==
    /\ wpc = "connect"
    /\ fn = "postgres"
    /\ tried' = tried + 1
    /\ \E outcome \in ProbeOutcomes :
          CASE outcome = "ok" ->
                  probes' = probes + 1 /\ connected' = TRUE /\ wpc' = "close"
            [] outcome = "operational" ->
                  probes' = probes /\ connected' = connected /\ wpc' = "except"
            [] outcome = "other" ->
                  probes' = probes /\ connected' = connected /\ wpc' = "raised"
    /\ UNCHANGED <<fn, retries, delay, idx, waited>>
    /\ WaitFrame

\* driver = GraphDatabase.driver(uri, auth=(user, password)): the driver is
\* created without contacting the store. The name is bound anew, so a driver
\* that an earlier turn left open is no longer referenced: the collector
\* may close it now or leave it open. When the constructor raises (it checks
\* the URI and the auth), nothing is opened or rebound and the except clause
\* handles the exception.
OpenDriver ==
    /\ wpc = "connect"
    /\ fn = "neo4j"
    /\ \E ok \in BOOLEAN :
          IF ok
          THEN probes' \in {probes + 1, 1} /\ wpc' = "session"
          ELSE probes' = probes /\ wpc' = "except"
    /\ UNCHANGED <<fn, retries, delay, idx, tried, connected, waited>>
    /\ WaitFrame

\* with driver.session() as session: session.run("RETURN 1")
ProbeNeo4j ==
    /\ wpc = "session"
    /\ tried' = tried + 1
    /\ \E ok \in BOOLEAN :
          IF ok
          THEN connected' = TRUE /\ wpc' = "close"
          ELSE connected' = connected /\ wpc' = "except"
    /\ UNCHANGED <<fn, retries, delay, idx, probes, waited>>
    /\ WaitFrame

\* conn.close() / driver.close(); print; return
\* When close() itself raises, the connection or driver may or may not have
\* been released; the exception is handled as one of the probe would be.
CloseProbe ==
    /\ wpc = "close"
    /\ \E outcome \in ProbeOutcomes :
          IF outcome = "ok"
          THEN probes' = probes - 1 /\ wpc' = "returned"
          ELSE /\ probes' \in {probes, probes - 1}
               /\ wpc' = IF fn = "postgres" /\ outcome = "other" THEN "raised" ELSE "except"
    /\ UNCHANGED <<fn, retries, delay, idx, tried, connected, waited>>
    /\ WaitFrame

\* except: if i < max_retries - 1: time.sleep(delay) else: raise
ExceptClause ==
    /\ wpc = "except"
    /\ IF MoreAttempts(idx, retries)
       THEN waited' = waited + delay /\ idx' = idx + 1 /\ wpc' = "for"
       ELSE waited' = waited /\ idx' = idx /\ wpc' = "raised"
    /\ UNCHANGED <<fn, retries, delay, probes, tried, connected>>
    /\ WaitFrame

WaitNext ==
    \/ ForRange
    \/ ProbePostgres
    \/ OpenDriver
    \/ ProbeNeo4j
    \/ CloseProbe
    \/ ExceptClause

SpecWait == WaitInit /\ [][WaitNext]_vars

(***************************************************************************)
(* Two runs of etl() at once, in two processes, against the same stores    *)
(* and the same source.  The variables of etl() hold the local state of    *)
(* the process that executes; other holds that of the process that waits.  *)
(* Nothing in etl() keeps a process from executing between two statements  *)
(* of the other: Switch hands the processor over at any statement.         *)
(***************************************************************************)
TwoRunSources == {ScenarioSource}

\* the local state of the executing process
Registers ==
    [pc |-> pc, run |-> run, attempt |-> attempt, pg_conn |-> pg_conn, driver |-> driver,
     df |-> df, k |-> k, j |-> j, cause |-> cause, written |-> written, report |-> report,
     failed_at |-> failed_at, slept |-> slept]

\* the executing process has executed a statement of etl()
Started == ~(pc = "wait_pg" /\ attempt = 0)

TwoRunsInit ==
    /\ pc = "wait_pg"
    /\ run = 1
    /\ attempt = 0
    /\ pg_conn = "none"
    /\ driver = "none"
    /\ \E st \in InitialStores : graph = st.graph /\ constraints = st.constraints
    /\ src \in TwoRunSources
    /\ df = NoTables
    /\ k = 1
    /\ j = 1
    /\ cause = "none"
    /\ written = NoWrites
    /\ ended = <<>>
    /\ report = NoReport
    /\ failed_at = "none"
    /\ slept = 0
    /\ other = [pc |-> "wait_pg", run |-> 2, attempt |-> 0, pg_conn |-> "none",
                driver |-> "none", df |-> NoTables, k |-> 1, j |-> 1, cause |-> "none",
                written |-> NoWrites, report |-> NoReport, failed_at |-> "none",
                slept |-> 0]
    /\ overlapped = FALSE
    /\ NoWait
    /\ data = <<>>
    /\ size = ChunkSize
    /\ groups = <<>>
    /\ returned = FALSE
    /\ NoFile

\* the operating system runs the other process
Switch ==
    /\ other.pc \notin {"absent", "done", "failed"}
    /\ Started
    /\ other' = Registers
    /\ overlapped' = (overlapped \/ pc \notin {"done", "failed"})
    /\ pc' = other.pc
    /\ run' = other.run
    /\ attempt' = other.attempt
    /\ pg_conn' = other.pg_conn
    /\ driver' = other.driver
    /\ df' = other.df
    /\ k' = other.k
    /\ j' = other.j
    /\ cause' = other.cause
    /\ written' = other.written
    /\ report' = other.report
    /\ failed_at' = other.failed_at
    /\ slept' = other.slept
    /\ UNCHANGED <<graph, constraints, src, ended>>
    /\ UNCHANGED <<chunkVars, fileVars, waitVars>>

TwoRunsNext ==
    \/ Switch
    \/ WaitForPostgres
    \/ WaitForNeo4j
    \/ ConnectPostgres
    \/ ConnectNeo4j
    \/ SchemaSetup
    \/ Reset
    \/ ExtractCategories
    \/ ExtractProducts
    \/ ExtractCustomers
    \/ ExtractOrders
    \/ ExtractOrderItems
    \/ ExtractEvents
    \/ LoadCategories
    \/ LoadProducts
    \/ LoadCustomers
    \/ LoadOrders
    \/ LoadOrderItems
    \/ LoadEvents
    \/ Verify
    \/ ClosePostgres
    \/ CloseDriver

SpecTwoRuns == TwoRunsInit /\ [][TwoRunsNext]_vars

(***************************************************************************)
(* run_cypher_file() followed on its own, on every short text over a small *)
(* alphabet: two statement letters, the separator, the comment character   *)
(* and the line break.                                                     *)
(***************************************************************************)
FileChars == {"A", "B", ";", "/", "\n"}

\* the characters str.strip() removes: those with str.isspace()
Whitespace == {
    "\t", "\n", "U+000B", "\f", "\r", "U+001C", "U+001D", "U+001E",
    "U+001F", " ", "U+0085", "U+00A0", "U+1680", "U+2000", "U+2001", "U+2002",
    "U+2003", "U+2004", "U+2005", "U+2006", "U+2007", "U+2008", "U+2009", "U+200A",
    "U+2028", "U+2029", "U+202F", "U+205F", "U+3000" }

\* str.split(sep) for a one-character separator
RECURSIVE Split(_, _)
Split(s, sep) ==
    IF \A i \in DOMAIN s : s[i] # sep
    THEN <<s>>
    ELSE LET p == CHOOSE i \in DOMAIN s : s[i] = sep /\ \A h \in 1..(i - 1) : s[h] # sep
         IN  <<SubSeq(s, 1, p - 1)>> \o Split(SubSeq(s, p + 1, Len(s)), sep)

RECURSIVE LStrip(_)
LStrip(s) ==
    IF s # <<>> /\ Head(s) \in Whitespace THEN LStrip(Tail(s)) ELSE s

RECURSIVE RStrip(_)
RStrip(s) ==
    IF s # <<>> /\ s[Len(s)] \in Whitespace THEN RStrip(SubSeq(s, 1, Len(s) - 1)) ELSE s

\* str.strip()
Strip(s) == LStrip(RStrip(s))

\* the condition of the list comprehension
Kept(stmt) == Strip(stmt) # <<>> /\ ~StartsWith(Strip(stmt), <<"/", "/">>)

\* [stmt.strip() for stmt in content.split(';') if ...]
Statements(text) ==
    LET segments == Split(text, ";")
        kept == SelectSeq(segments, Kept)
    IN  [i \in DOMAIN kept |-> Strip(kept[i])]

FileInit ==
    /\ content \in SeqsUpTo(FileChars, MaxFileLen)
    /\ statements = <<>>
    /\ pos = 1
    /\ executed = <<>>
    /\ fpc = "read"
    /\ NoPeer
    /\ NoWait
    /\ EtlIdle
    /\ data = <<>>
    /\ size = ChunkSize
    /\ groups = <<>>
    /\ returned = FALSE

\* content = f.read(); statements = [...]
ReadStatements ==
    /\ fpc = "read"
    /\ statements' = Statements(content)
    /\ fpc' = "loop"
    /\ UNCHANGED <<content, pos, executed>>
    /\ UNCHANGED <<etlVars, chunkVars, peerVars, waitVars>>

\* one turn of "for statement in statements", or the return after the last
ExecuteStatement ==
    /\ fpc = "loop"
    /\ pos <= Len(statements)
    /\ UNCHANGED <<content, statements>>
    /\ UNCHANGED <<etlVars, chunkVars, peerVars, waitVars>>
    /\ IF statements[pos] # <<>>
       THEN \E ok \in BOOLEAN :
               IF ok
               THEN executed' = Append(executed, statements[pos]) /\ pos' = pos + 1 /\ fpc' = fpc
               ELSE fpc' = "raised" /\ UNCHANGED <<executed, pos>>
       ELSE pos' = pos + 1 /\ UNCHANGED <<executed, fpc>>

FileReturn ==
    /\ fpc = "loop"
    /\ pos > Len(statements)
    /\ fpc' = "returned"
    /\ UNCHANGED <<content, statements, pos, executed>>
    /\ UNCHANGED <<etlVars, chunkVars, peerVars, waitVars>>

FileNext == ReadStatements \/ ExecuteStatement \/ FileReturn

SpecCypherFile == FileInit /\ [][FileNext]_vars

(***************************************************************************)
(* Properties.                                                             *)
(***************************************************************************)
TableOf(step) ==
    CASE step = "load_categories" -> "categories"
      [] step = "load_products" -> "products"
      [] step = "load_customers" -> "customers"
      [] step = "load_orders" -> "orders"
      [] step = "load_order_items" -> "order_items"
      [] step = "load_events" -> "events"

\* every write statement of a load step has completed in this run
Completed(step) ==
    written[step] = IF step = "load_events"
                    THEN Len(src["events"])
                    ELSE Len(Chunk(src[TableOf(step)], ChunkSize))

\* a write statement of the step is being issued or has completed in this run
Writing(step) == pc = step \/ written[step] > 0

\* C1: within a run, no Product/IN_CATEGORY write is issued before every
\* Category write has completed, no Order/PLACED write before every Customer
\* write, no CONTAINS write before every Product and Order write, and no
\* event-edge write before every Customer and Product write.
C1_DependenciesLoadedFirst ==
    /\ Writing("load_products") => Completed("load_categories")
    /\ Writing("load_orders") => Completed("load_customers")
    /\ Writing("load_order_items") => Completed("load_products") /\ Completed("load_orders")
    /\ Writing("load_events") => Completed("load_customers") /\ Completed("load_products")

C1_Witness ==
    /\ pc = "load_products"
    /\ written["load_products"] = 1
    /\ written["load_categories"] = 2
    /\ Len(src["categories"]) = 3

RelCount(g, type) ==
    LET hit == {r \in BagToSet(g.rels) : r.type = type}
    IN  BagCardinality([r \in hit |-> g.rels[r]])

Counts(g) ==
    [nodes |-> [l \in Labels |-> NodeCount(g, l)],
     rels |-> [t \in RelTypes |-> RelCount(g, t)]]

\* C2: when the pipeline has run to completion and is run again against
\* the same source, with the stores reachable, the second run completes too
\* and leaves the same node count per label and the same relationship count
\* per type as the first.
C2_SecondRunSameCounts ==
    (Len(ended) >= 2 /\ ended[1].outcome = "done" /\ ended[2].cause # "env")
        => /\ ended[2].outcome = "done"
           /\ Counts(ended[2].graph) = Counts(ended[1].graph)

C2_Witness ==
    /\ Len(ended) = 2
    /\ ended[1].outcome = "done"
    /\ ended[2].outcome = "done"
    /\ NodeCount(ended[2].graph, "Product") = 3
    /\ RelCount(ended[2].graph, "CONTAINS") > 0

\* the graph a complete load of the source builds on an empty store
LoadedGraph(s) ==
    LET g1 == CategoryQuery(EmptyGraph, s["categories"])
        g2 == ProductQuery(g1, s["products"])
        g3 == CustomerQuery(g2, CustomerRecords(s["customers"]))
        g4 == OrderQuery(g3, OrderRecords(s["orders"]))
        g5 == OrderItemQuery(g4, s["order_items"])
        withEvents[i \in 0..Len(s["events"])] ==
            IF i = 0 THEN g5
            ELSE EventQuery(withEvents[i - 1], RelType(s["events"][i].event_type),
                            EventParams(s["events"][i]))
    IN  withEvents[Len(s["events"])]

\* C3: whatever the graph held before the run, a run that the stores'
\* availability does not interrupt ends with the graph that the source alone
\* determines.
C3_FinalGraphFromSourceAlone ==
    \A i \in DOMAIN ended :
        ended[i].cause # "env" => ended[i].graph = LoadedGraph(src)

\* C4: once the relational connection has been acquired, etl() does not
\* return or raise before both the relational connection and the graph
\* driver have been closed.
C4_BothClosedOnExit ==
    (pc \in {"done", "failed"} /\ pg_conn # "none")
        => pg_conn = "closed" /\ driver = "closed"

Rows(table) == {src[table][i] : i \in DOMAIN src[table]}

Last(s) == s[Len(s)]

\* Each timestamp text held by the graph, paired with the source timestamp
\* of the orders or events row it was written for.
SentTimestamps ==
    {<<row.ts, n.ts>> : <<row, n>> \in
        {<<r, m>> \in Rows("orders") \X BagToSet(graph.nodes) :
            m.label = "Order" /\ m.id = r.id}}
    \cup
    {<<row.ts, e.ts>> : <<row, e>> \in
        {<<r, m>> \in Rows("events") \X BagToSet(graph.rels) :
            "event_id" \in DOMAIN m /\ m.event_id = r.id}}

\* the instant a source timestamp denotes, in minutes of the day, UTC; a
\* timestamp with no offset is read as UTC
UtcMinutes(ts) == ts.hour * 60 + ts.minute - (IF ts.aware THEN ts.off ELSE 0)

\* C5: a source timestamp with offset +00:00 and one with no offset that
\* denote the same instant reach the graph as the same text, and that text
\* ends in "Z".
C5_SameInstantSameText ==
    \A a, b \in SentTimestamps :
        (a[1].aware /\ a[1].off = 0 /\ ~b[1].aware /\ UtcMinutes(a[1]) = UtcMinutes(b[1]))
            => a[2] = b[2] /\ Last(a[2]) = "Z"

\* C6: every timestamp text sent to the graph for a source timestamp that
\* carries an offset, whatever the offset, ends with the designator "Z".
C6_EveryTimestampEndsInZ ==
    \A p \in SentTimestamps : p[1].aware => Last(p[2]) = "Z"

EventRels == {r \in BagToSet(graph.rels) : "event_id" \in DOMAIN r}

\* the spelling of an event type with letter case set aside: its upper-case
\* form, the form the fixed table is written in
IgnoringCase(event_type) == Upper(event_type)

\* C7: the relationship kind written for an events row is one of VIEWED,
\* CLICKED, ADDED_TO_CART, INTERACTED_WITH; it is VIEWED, CLICKED or
\* ADDED_TO_CART when event_type reads VIEW, CLICK or ADD_TO_CART in any
\* letter case, and INTERACTED_WITH for every other event_type; two rows whose
\* event types differ in letter case only get the same kind.
C7_KindFromEventTypeIgnoringCase ==
    /\ \A row \in Rows("events") : \A r \in EventRels :
          r.event_id = row.id =>
              LET t == IgnoringCase(row.event_type)
              IN  /\ r.type \in {"VIEWED", "CLICKED", "ADDED_TO_CART", "INTERACTED_WITH"}
                  /\ r.type = "VIEWED" <=> t = <<"V", "I", "E", "W">>
                  /\ r.type = "CLICKED" <=> t = <<"C", "L", "I", "C", "K">>
                  /\ r.type = "ADDED_TO_CART"
                         <=> t = <<"A", "D", "D", "_", "T", "O", "_", "C", "A", "R", "T">>
    /\ \A a, b \in Rows("events") : \A ra, rb \in EventRels :
          /\ ra.event_id = a.id
          /\ rb.event_id = b.id
          /\ IgnoringCase(a.event_type) = IgnoringCase(b.event_type)
          => ra.type = rb.type

\* lower-case, upper-case and other event types have been written: view and
\* VIEW as VIEWED, PURCHASE as INTERACTED_WITH
C7_Witness ==
    /\ \E row \in Rows("events") : \E r \in EventRels :
          /\ r.event_id = row.id
          /\ row.event_type = <<"v", "i", "e", "w">>
          /\ r.type = "VIEWED"
    /\ \E row \in Rows("events") : \E r \in EventRels :
          /\ r.event_id = row.id
          /\ row.event_type = <<"V", "I", "E", "W">>
          /\ r.type = "VIEWED"
    /\ \E row \in Rows("events") : \E r \in EventRels :
          /\ r.event_id = row.id
          /\ row.event_type = <<"P", "U", "R", "C", "H", "A", "S", "E">>
          /\ r.type = "INTERACTED_WITH"

\* the events rows whose write statement has completed in this run
EventsWritten == {df["events"][i] : i \in 1..written["load_events"]}

Matches(label, id) == MatchCount(graph, label, id) > 0

\* C8: once the write for an events row has completed, the graph holds, when
\* the row's customer_id and product_id both match a node, exactly one
\* relationship with that row's event id, and it runs from that customer to
\* that product with the row's timestamp, whatever the event_type; no run
\* fails in the events step unless the store is unreachable.
C8_OneEdgePerMatchedEvent ==
    /\ \A row \in EventsWritten :
          (Matches("Customer", row.customer_id) /\ Matches("Product", row.product_id))
              => /\ BagCardinality([r \in {e \in EventRels : e.event_id = row.id}
                                       |-> graph.rels[r]]) = 1
                 /\ \A r \in EventRels :
                       r.event_id = row.id
                           => /\ r.from = row.customer_id
                              /\ r.to = row.product_id
                              /\ r.ts = NormalizeTs(row.ts)
    /\ (cause = "constraint" => df = NoTables)

C8_Witness ==
    /\ pc = "done"
    /\ written["load_events"] = 3
    /\ \E r \in EventRels : r.event_id = 3 /\ r.type = "INTERACTED_WITH"

\* the order_items rows whose write statement has completed in this run
ItemsWritten ==
    LET chunks == Chunk(df["order_items"], ChunkSize)
    IN  {chunks[c][i] : <<c, i>> \in
            {<<c, i>> \in (1..written["load_order_items"]) \X (1..ChunkSize) :
                i <= Len(chunks[c])}}

ContainsCount(row) ==
    LET hit == {r \in BagToSet(graph.rels) :
                   /\ r.type = "CONTAINS"
                   /\ r.from = row.order_id
                   /\ r.to = row.product_id}
    IN  BagCardinality([r \in hit |-> graph.rels[r]])

EventCount(row) ==
    BagCardinality([r \in {e \in EventRels : e.event_id = row.id} |-> graph.rels[r]])

\* C9: once the write holding an order_items row (or an events row) has
\* completed, that row has no relationship when an id it references matches
\* no node and exactly one when they all match, whatever the other rows of
\* its chunk reference; no run fails in a load step unless the store is
\* unreachable.
C9_DanglingRowsAreSkipped ==
    /\ \A row \in ItemsWritten :
          ContainsCount(row) =
              IF Matches("Order", row.order_id) /\ Matches("Product", row.product_id)
              THEN 1 ELSE 0
    /\ \A row \in EventsWritten :
          EventCount(row) =
              IF Matches("Customer", row.customer_id) /\ Matches("Product", row.product_id)
              THEN 1 ELSE 0
    /\ (cause = "constraint" => df = NoTables)

C9_Witness ==
    /\ pc = "done"
    /\ Item(1, 1, 2) \in ItemsWritten /\ ContainsCount(Item(1, 1, 2)) = 1
    /\ Item(3, 3, 5) \in ItemsWritten /\ ContainsCount(Item(3, 3, 5)) = 0
    /\ ~Matches("Order", 3)
    /\ Matches("Product", 3)
    /\ \E row \in EventsWritten : ~Matches("Customer", row.customer_id) /\ EventCount(row) = 0

RECURSIVE Concat(_)
Concat(seqs) == IF seqs = <<>> THEN <<>> ELSE Head(seqs) \o Concat(Tail(seqs))

\* C10: for every input and every size s > 0, chunk returns groups of at
\* least 1 and at most s rows whose concatenation, in order, is the input;
\* the empty input gives no group.
C10_GroupsCoverInputInOrder ==
    returned =>
        /\ \A g \in DOMAIN groups : Len(groups[g]) >= 1 /\ Len(groups[g]) <= size
        /\ Concat(groups) = data
        /\ (data = <<>> => groups = <<>>)

C10_Witness ==
    /\ returned
    /\ Len(data) = 5
    /\ size = 2
    /\ Len(groups) = 3
    /\ Len(groups[3]) = 1

\* ceil(n / s) for s > 0
CeilDiv(n, s) == (n + s - 1) \div s

\* C11: for every input of n rows and every size s > 0, chunk returns
\* ceil(n/s) groups; every group but the last has s rows, and the last has
\* n mod s rows when s does not divide n and s rows when it does.
C11_GroupCountAndSizes ==
    returned =>
        LET n == Len(data)
        IN  /\ Len(groups) = CeilDiv(n, size)
            /\ \A g \in DOMAIN groups : g < Len(groups) => Len(groups[g]) = size
            /\ n > 0 => Len(groups[Len(groups)]) = IF n % size = 0 THEN size ELSE n % size

C11_Witness ==
    /\ returned
    /\ Len(data) = 5
    /\ size = 3
    /\ Len(groups) = 2
    /\ Len(groups[1]) = 3
    /\ Len(groups[2]) = 2

Ids(table) == {r.id : r \in Rows(table)}

\* every foreign key of the source names a row of the table it refers to
ForeignKeysResolve ==
    /\ \A r \in Rows("products") : r.category_id \in Ids("categories")
    /\ \A r \in Rows("orders") : r.customer_id \in Ids("customers")
    /\ \A r \in Rows("order_items") :
          r.order_id \in Ids("orders") /\ r.product_id \in Ids("products")
    /\ \A r \in Rows("events") :
          r.customer_id \in Ids("customers") /\ r.product_id \in Ids("products")

EventRelCount == BagCardinality([r \in EventRels |-> graph.rels[r]])

\* C12: after a successful run over a source whose foreign keys all
\* resolve, the graph holds one node per categories, products, customers and
\* orders row, one IN_CATEGORY per product, one PLACED per order, one
\* CONTAINS per order_items row and one event relationship per events row;
\* for the scenario source that is Category 2, Product 3, IN_CATEGORY 3,
\* Customer 2, Order 2, PLACED 2, CONTAINS 2, VIEWED 1, 8 relationships.
C12_OneNodeOrEdgePerRow ==
    /\ (pc = "done" /\ ForeignKeysResolve)
          => /\ NodeCount(graph, "Category") = Len(src["categories"])
             /\ NodeCount(graph, "Product") = Len(src["products"])
             /\ NodeCount(graph, "Customer") = Len(src["customers"])
             /\ NodeCount(graph, "Order") = Len(src["orders"])
             /\ RelCount(graph, "IN_CATEGORY") = Len(src["products"])
             /\ RelCount(graph, "PLACED") = Len(src["orders"])
             /\ RelCount(graph, "CONTAINS") = Len(src["order_items"])
             /\ EventRelCount = Len(src["events"])
    /\ (pc = "done" /\ src = ScenarioSource)
          => /\ NodeCount(graph, "Category") = 2
             /\ NodeCount(graph, "Product") = 3
             /\ RelCount(graph, "IN_CATEGORY") = 3
             /\ NodeCount(graph, "Customer") = 2
             /\ NodeCount(graph, "Order") = 2
             /\ RelCount(graph, "PLACED") = 2
             /\ RelCount(graph, "CONTAINS") = 2
             /\ RelCount(graph, "VIEWED") = 1
             /\ BagCardinality(graph.rels) = 8

C12_Witness ==
    /\ pc = "done"
    /\ src = ScenarioSource
    /\ report = [customers |-> 2, products |-> 3, orders |-> 2, categories |-> 2,
                 relationships |-> 8]

\* The steps of a run, in the order the design names them.
StepNames ==
    <<"WAIT_DEPENDENCIES", "SCHEMA_SETUP", "RESET", "LOAD_CATEGORIES", "LOAD_PRODUCTS",
      "LOAD_CUSTOMERS", "LOAD_ORDERS", "LOAD_ORDER_ITEMS", "LOAD_EVENTS", "VERIFY", "DONE">>

\* The step a run is in at each statement.  Opening the connections is the
\* end of WAIT_DEPENDENCIES, the extractions follow RESET before the first
\* load step is entered, and the finally clause ends VERIFY.
StepAt(p) ==
    CASE p \in {"wait_pg", "wait_neo", "connect_pg", "connect_neo"} -> "WAIT_DEPENDENCIES"
      [] p = "schema" -> "SCHEMA_SETUP"
      [] p \in {"reset", "extract_categories", "extract_products", "extract_customers",
                "extract_orders", "extract_order_items", "extract_events"} -> "RESET"
      [] p = "load_categories" -> "LOAD_CATEGORIES"
      [] p = "load_products" -> "LOAD_PRODUCTS"
      [] p = "load_customers" -> "LOAD_CUSTOMERS"
      [] p = "load_orders" -> "LOAD_ORDERS"
      [] p = "load_order_items" -> "LOAD_ORDER_ITEMS"
      [] p = "load_events" -> "LOAD_EVENTS"
      [] p \in {"verify", "finally_pg", "finally_driver"} -> "VERIFY"
      [] p = "done" -> "DONE"
      [] p = "failed" -> "FAILED"

StepRank(p) ==
    IF \E n \in DOMAIN StepNames : StepNames[n] = StepAt(p)
    THEN CHOOSE n \in DOMAIN StepNames : StepNames[n] = StepAt(p)
    ELSE 0

\* C13: a run starts in WAIT_DEPENDENCIES and, as long as nothing has
\* failed, every statement either stays in the current step or enters the
\* next one of WAIT_DEPENDENCIES, SCHEMA_SETUP, RESET, LOAD_CATEGORIES,
\* LOAD_PRODUCTS, LOAD_CUSTOMERS, LOAD_ORDERS, LOAD_ORDER_ITEMS, LOAD_EVENTS,
\* VERIFY, DONE: a successful run enters each once, in that order.
C13_StepsInOrder ==
    [][ IF run' # run
        THEN StepRank(pc') = 1
        ELSE cause' = "none"
                => \/ StepRank(pc') = StepRank(pc)
                   \/ StepRank(pc') = StepRank(pc) + 1 ]_vars

C13_Witness ==
    /\ pc = "done"
    /\ run = 1
    /\ cause = "none"
    /\ \A n \in DOMAIN LoadSteps : Completed(LoadSteps[n]) /\ written[LoadSteps[n]] > 0

\* C14: once a step of a run has failed, the run executes nothing more
\* than the release of its connections: no step of the sequence runs, the
\* failed step is not tried again, nothing is written, extracted or
\* reported, and the run does not reach DONE.
C14_FailureEndsRun ==
    [][ (cause # "none" /\ run' = run)
            => /\ pc' \in {"finally_pg", "finally_driver", "failed"}
               /\ pc' # pc
               /\ cause' # "none"
               /\ graph' = graph
               /\ constraints' = constraints
               /\ df' = df
               /\ written' = written
               /\ report' = report ]_vars

C14_Witness ==
    /\ pc = "failed"
    /\ failed_at = "load_products"
    /\ written["load_categories"] > 0
    /\ written["load_products"] = 1
    /\ ~Completed("load_products")
    /\ pg_conn = "closed"
    /\ driver = "closed"

ExtractSteps ==
    {"extract_categories", "extract_products", "extract_customers",
     "extract_orders", "extract_order_items", "extract_events"}

\* C15: when one of the six table extractions fails, the run goes straight to
\* its exit and no load write has been or will be executed in it: the graph
\* stays as the reset left it, with no node and no edge. No load write is
\* ever issued before all six tables have been extracted.
C15_ExtractionFailureLoadsNothing ==
    /\ failed_at \in ExtractSteps
          => /\ pc \in {"finally_pg", "finally_driver", "failed"}
             /\ written = NoWrites
             /\ graph = EmptyGraph
    /\ \A i \in DOMAIN LoadSteps : Writing(LoadSteps[i]) => df = src

C15_Witness ==
    /\ pc = "failed"
    /\ failed_at = "extract_orders"
    /\ Len(src["categories"]) > 0
    /\ df["categories"] = src["categories"]
    /\ Len(src["orders"]) > 0
    /\ df["orders"] = <<>>

WaitSteps == {"wait_pg", "wait_neo"}

\* the store as it was when the current run began
StoreAtRunStart(g, c) ==
    IF run = 1
    THEN [graph |-> g, constraints |-> c] \in InitialStores
    ELSE g = ended[run - 1].graph

\* C16: a readiness wait makes at most max_retries attempts, with one sleep of
\* the same fixed delay between two consecutive attempts; wait_for_neo4j
\* raises only at its last attempt, and when a wait raises the run ends there
\* with no connection opened, no schema setup, no reset, no extraction and no
\* load: the store is as it was when the run began.
C16_UnreachableStoreStopsRun ==
    /\ pc \in WaitSteps => attempt < MaxRetries /\ slept = Delay * attempt
    /\ failed_at \in WaitSteps
          => /\ pc = "failed"
             /\ cause = "env"
             /\ attempt + 1 <= MaxRetries
             /\ slept = Delay * attempt
             /\ failed_at = "wait_neo" => attempt + 1 = MaxRetries
             /\ pg_conn = "none"
             /\ driver = "none"
             /\ df = NoTables
             /\ written = NoWrites
             /\ report = NoReport
             /\ StoreAtRunStart(graph, constraints)

C16_Witness ==
    /\ pc = "failed"
    /\ failed_at = "wait_neo"
    /\ attempt = MaxRetries - 1
    /\ slept = Delay
    /\ run = 2
    /\ ended[1].outcome = "done"
    /\ graph = LoadedGraph(src)
    /\ graph # EmptyGraph

\* a blank line or a line that begins with '//'
IgnoredLine(line) == Strip(line) = <<>> \/ StartsWith(Strip(line), <<"/", "/">>)

RECURSIVE JoinLines(_)
JoinLines(lines) ==
    IF lines = <<>> THEN <<>>
    ELSE IF Len(lines) = 1 THEN Head(lines)
    ELSE Head(lines) \o <<"\n">> \o JoinLines(Tail(lines))

\* the text of a segment without its blank and '//' lines
WithoutIgnoredLines(text) ==
    LET NotIgnored(line) == ~IgnoredLine(line)
        lines == SelectSeq(Split(text, "\n"), NotIgnored)
    IN  JoinLines([i \in DOMAIN lines |-> Strip(lines[i])])

\* the statements of a script: what each ';'-delimited segment holds once its
\* blank and '//' lines are ignored, for the segments that hold anything
ScriptStatements(text) ==
    LET segments == Split(text, ";")
        cleaned == [i \in DOMAIN segments |-> WithoutIgnoredLines(segments[i])]
        NonEmpty(t) == t # <<>>
    IN  SelectSeq(cleaned, NonEmpty)

\* C17: when run_cypher_file returns, the texts it has executed are, in file
\* order and once each, the statements of the script, blank lines and lines
\* beginning with '//' apart; in particular a statement that follows a '//'
\* line within its ';'-delimited segment has been executed.
C17_EveryStatementExecuted ==
    fpc = "returned"
        => [i \in DOMAIN executed |-> WithoutIgnoredLines(executed[i])]
               = ScriptStatements(content)

\* the rows of a batched load step whose write statement has completed in this run
RowsWritten(step) ==
    LET t == src[TableOf(step)]
    IN  {t[i] : i \in {h \in DOMAIN t : h <= written[step] * ChunkSize}}

EdgeCount(g, type, from, to) ==
    LET hit == {r \in BagToSet(g.rels) : r.type = type /\ r.from = from /\ r.to = to}
    IN  BagCardinality([r \in hit |-> g.rels[r]])

\* C18: every products row of a completed chunk has its Product node and
\* every orders row of a completed chunk its Order node, whether or not its
\* category_id / customer_id names a node; the row has its IN_CATEGORY /
\* PLACED edge exactly when it does. A row that names no node leaves the
\* other rows of its chunk as they are and does not make the write fail: a
\* products or orders write fails only when the store does.
C18_DanglingKeyKeepsNode ==
    /\ \A r \in RowsWritten("load_products") :
          /\ MatchCount(graph, "Product", r.id) = 1
          /\ EdgeCount(graph, "IN_CATEGORY", r.id, r.category_id)
                = IF r.category_id \in Ids("categories") THEN 1 ELSE 0
    /\ \A r \in RowsWritten("load_orders") :
          /\ MatchCount(graph, "Order", r.id) = 1
          /\ EdgeCount(graph, "PLACED", r.customer_id, r.id)
                = IF r.customer_id \in Ids("customers") THEN 1 ELSE 0
    /\ failed_at \in {"load_products", "load_orders"} => cause = "env"

\* products row 3 names category 3 and orders row 2 customer 2, which do not
\* exist; orders rows 1 and 2 are in the same chunk
C18_Witness ==
    /\ pc = "done"
    /\ Len(src["categories"]) = 2
    /\ Len(src["products"]) = 3
    /\ src["products"][3].category_id = 3
    /\ Len(src["customers"]) = 1
    /\ Len(src["orders"]) = 3
    /\ src["orders"][2].customer_id = 2
    /\ NodeCount(graph, "Product") = 3
    /\ RelCount(graph, "IN_CATEGORY") = 2
    /\ NodeCount(graph, "Order") = 3
    /\ RelCount(graph, "PLACED") = 1

\* the rows of each table that the write statements completed in this run carried
WrittenSource ==
    [t \in Tables |->
        LET step == CHOOSE st \in DOMAIN written : TableOf(st) = t
            rows == IF step = "load_events"
                    THEN written[step]
                    ELSE Min(written[step] * ChunkSize, Len(src[t]))
        IN  SubSeq(src[t], 1, rows)]

\* C19: when a load step has failed, the graph holds what the write
\* statements completed in this run created, all of it and nothing else:
\* the completed steps and chunks are not rolled back, and nothing of what
\* the graph held before the run is left.
C19_PartialLoadStays ==
    (failed_at \in DOMAIN written /\ cause # "none")
        => graph = LoadedGraph(WrittenSource)

\* the second run fails in the second chunk of products, after a first run
\* that had loaded everything
C19_Witness ==
    /\ run = 2
    /\ ended[1].outcome = "done"
    /\ ended[1].graph = LoadedGraph(src)
    /\ pc = "failed"
    /\ failed_at = "load_products"
    /\ written["load_products"] = 1
    /\ NodeCount(graph, "Category") = Len(src["categories"])
    /\ NodeCount(graph, "Product") = ChunkSize
    /\ NodeCount(ended[1].graph, "Product") = 3
    /\ NodeCount(graph, "Customer") = 0
    /\ NodeCount(ended[1].graph, "Customer") > 0

BatchedSteps ==
    {"load_categories", "load_products", "load_customers", "load_orders", "load_order_items"}

\* the event relationships the graph holds for one events row
RelsOfEvent(row) == {r \in EventRels : r.event_id = row.id}

\* C20: a run never completes more than ceil(row_count / chunk_size) write
\* statements for a batched entity type, nor more than one per events row,
\* and a successful run has completed exactly that many; each event write
\* of a successful run used the relationship kind of its own row.
C20_WritesPerType ==
    /\ \A step \in BatchedSteps :
          /\ written[step] <= CeilDiv(Len(src[TableOf(step)]), ChunkSize)
          /\ pc = "done" => written[step] = CeilDiv(Len(src[TableOf(step)]), ChunkSize)
    /\ written["load_events"] <= Len(src["events"])
    /\ pc = "done" =>
          /\ written["load_events"] = Len(src["events"])
          /\ \A row \in Rows("events") :
                (row.customer_id \in Ids("customers") /\ row.product_id \in Ids("products"))
                    => /\ \E r \in RelsOfEvent(row) : graph.rels[r] = 1
                       /\ \A r \in RelsOfEvent(row) : r.type = RelType(row.event_type)
                       /\ Cardinality(RelsOfEvent(row)) = 1

\* three categories in two chunks, three customers in two chunks, three
\* events of two kinds in three statements
C20_Witness ==
    /\ pc = "done"
    /\ Len(src["categories"]) = 3
    /\ written["load_categories"] = 2
    /\ Len(src["customers"]) = 3
    /\ written["load_customers"] = 2
    /\ Len(src["events"]) = 3
    /\ written["load_events"] = 3
    /\ RelCount(graph, "VIEWED") = 2
    /\ RelCount(graph, "INTERACTED_WITH") = 1

\* every node and relationship of g is one that h holds too
SameContentAtMost(g, h) ==
    /\ BagToSet(g.nodes) \subseteq BagToSet(h.nodes)
    /\ BagToSet(g.rels) \subseteq BagToSet(h.rels)

\* C21: nothing keeps two runs against the same graph apart. When both
\* have ended, the graph is the one a single run produces if the second ran
\* after the first had ended (and the store stayed reachable); when they
\* interleaved it need not be, and what a completed run leaves then differs
\* from it only by nodes or relationships held more than once or missing.
C21_InterleavedRunsDiverge ==
    Len(ended) = 2 =>
        /\ (~overlapped /\ ended[1].outcome = "done" /\ ended[2].cause # "env")
              => ended[2].outcome = "done" /\ graph = LoadedGraph(src)
        /\ (\E e \in 1..2 : ended[e].outcome = "done")
              => SameContentAtMost(graph, LoadedGraph(src))

\* two runs that interleaved have both ended normally and the graph holds
\* a CONTAINS relationship twice
C21_Witness ==
    /\ Len(ended) = 2
    /\ overlapped
    /\ ended[1].outcome = "done"
    /\ ended[2].outcome = "done"
    /\ graph # LoadedGraph(src)
    /\ RelCount(graph, "CONTAINS") > Len(src["order_items"])

\* the statements of etl() up to and including schema setup
PreResetSteps == {"wait_pg", "wait_neo", "connect_pg", "connect_neo", "schema"}

\* C22: within a run, no statement up to and including schema setup changes
\* the nodes or relationships of the graph, and neither does anything the
\* run does after one of them has failed; from those statements a run goes
\* nowhere but on among them, to its exit, or from a completed schema setup
\* to the reset, which is reached in no other way.
C22_NoGraphChangeBeforeReset ==
    [][ run' = run =>
           /\ (pc \in PreResetSteps \/ failed_at \in PreResetSteps) => graph' = graph
           /\ pc \in PreResetSteps
                 => pc' \in PreResetSteps \cup {"reset", "finally_pg", "failed"}
           /\ pc' = "reset" /\ pc # "reset"
                 => pc = "schema" /\ cause' = "none" /\ constraints' = AllConstraints ]_vars

\* schema setup has failed on a store that held an earlier load: the run has
\* ended and the earlier load is still there
C22_Witness ==
    /\ pc = "failed"
    /\ failed_at = "schema"
    /\ pg_conn = "closed"
    /\ driver = "closed"
    /\ graph = StaleGraph
    /\ written = NoWrites

\* C23: for every max_retries, zero and negative values included, a
\* wait_for_* function that has returned normally has seen one of its
\* connection attempts succeed.
C23_ReturnsOnlyAfterSuccess ==
    wpc = "returned" => connected /\ tried > 0

\* C24: a wait_for_* function holds no open probe connection or driver when
\* a turn of its loop starts, when it returns and when it raises, and never
\* more than one at a time.
C24_ProbesClosed ==
    /\ wpc \in {"for", "returned", "raised"} => probes = 0
    /\ probes <= 1

====
